---- MODULE Spec2Model ----
(***************************************************************************)
(* A model of EslintTsMorphUtil (libs/tools/nx-tools/src/lib/              *)
(* eslint-tsmorph-util.ts): the exported array of an ESLint flat           *)
(* configuration, kept as a syntax tree, and the operations that edit it.  *)
(*                                                                         *)
(* A JavaScript string and a piece of source text are both sequences of    *)
(* tokens (TLA+ strings): an ordinary token stands for a run of ordinary   *)
(* characters, and the quote characters, the backslash and the spread      *)
(* marker "..." are tokens of their own.                                   *)
(***************************************************************************)
EXTENDS Integers, Sequences, FiniteSets, TLC

VARIABLES
    configArray,  \* the elements of the exported array literal (the live tree)
    op,           \* the last call made on the session, with its arguments
    pre,          \* the tree (array elements or import declarations) before that call
    calls,        \* the number of calls made so far
    session,      \* "none" before construction, then "live" or "failed"
    sourceFile,   \* the text the session was constructed from
    tree,         \* the workspace: the text of the file at filePath, or Absent
    writes,       \* the writes made to the workspace so far
    imports       \* the import declarations of a file held by ImportTsMorphUtil

sessionVars == <<session, sourceFile, tree, writes>>

vars == <<configArray, op, pre, calls, sessionVars, imports>>

(***************************************************************************)
(* Bounds of the model.                                                    *)
(***************************************************************************)
MaxCalls == 2   \* calls made on one session

(***************************************************************************)
(* Text.                                                                   *)
(***************************************************************************)
SQ == "'"
DQ == "\""
BS == "\\"
DOTS == "..."

\* The tokens, in the order String.prototype comparison gives them.
Alphabet == <<DQ, SQ, DOTS, BS, "a", "b", "base", "baseRules", "error", "files",
              "fn()", "languageOptions", "opaque", "parser", "parserOptions",
              "rules", "sharedRules", "warn", "x", "y">>

Rank(tok) == CHOOSE i \in 1..Len(Alphabet) : Alphabet[i] = tok

RECURSIVE StrLess(_, _)
StrLess(s, t) ==
    IF t = <<>> THEN FALSE
    ELSE IF s = <<>> THEN TRUE
    ELSE IF Head(s) = Head(t) THEN StrLess(Tail(s), Tail(t))
    ELSE Rank(Head(s)) < Rank(Head(t))

Min(S) == CHOOSE i \in S : \A j \in S : i <= j

\* Array.prototype.sort() on an array of strings (insertion into a sorted prefix).
Insert(sorted, s) ==
    LET k == Cardinality({i \in 1..Len(sorted) : ~StrLess(s, sorted[i])})
    IN  SubSeq(sorted, 1, k) \o <<s>> \o SubSeq(sorted, k + 1, Len(sorted))

Sort(a) ==
    LET f[i \in 0..Len(a)] == IF i = 0 THEN <<>> ELSE Insert(f[i - 1], a[i])
    IN  f[Len(a)]

(***************************************************************************)
(* Syntax nodes (ts-morph).                                                *)
(***************************************************************************)
StringLiteral(q, raw) == [kind |-> "StringLiteral", q |-> q, raw |-> raw]
NumericLiteral(n) == [kind |-> "NumericLiteral", n |-> n]
Keyword(k) == [kind |-> k]
Identifier(text) == [kind |-> "Identifier", text |-> text]
ArrayLiteral(els) == [kind |-> "ArrayLiteralExpression", els |-> els]
ObjectLiteral(props) == [kind |-> "ObjectLiteralExpression", props |-> props]
CallExpression(callee, args) == [kind |-> "CallExpression", callee |-> callee, args |-> args]
AwaitExpression(expr) == [kind |-> "AwaitExpression", expr |-> expr]
OtherExpression(text) == [kind |-> "Other", text |-> text]
PrefixUnaryExpression(text) == [kind |-> "PrefixUnaryExpression", text |-> text]
SpreadElement(text) == [kind |-> "SpreadElement", text |-> text]

PropertyAssignment(name, init) == [kind |-> "PropertyAssignment", name |-> name, init |-> init]
SpreadAssignment(expr) == [kind |-> "SpreadAssignment", expr |-> expr]
\* The text "name: initializer" where name is no property name: not a member
\* the tree can name, look up or decode.
MalformedMember(name, init) == [kind |-> "Malformed", name |-> name, init |-> init]

isObjectLiteral(n) == n.kind = "ObjectLiteralExpression"
isArrayLiteral(n) == n.kind = "ArrayLiteralExpression"
isStringLiteral(n) == n.kind = "StringLiteral"
isPropertyAssignment(m) == m.kind = "PropertyAssignment"
isSpreadAssignment(m) == m.kind = "SpreadAssignment"

\* StringLiteral.getLiteralValue(): the text between the quotes, each escape
\* sequence replaced by the character it stands for.
RECURSIVE Unescape(_)
Unescape(raw) ==
    IF raw = <<>> THEN <<>>
    ELSE IF Head(raw) = BS /\ Len(raw) >= 2
         THEN <<raw[2]>> \o Unescape(SubSeq(raw, 3, Len(raw)))
         ELSE <<Head(raw)>> \o Unescape(Tail(raw))

getLiteralValue(n) == Unescape(n.raw)

(***************************************************************************)
(* JavaScript values.                                                      *)
(***************************************************************************)
VStr(s) == [t |-> "string", s |-> s]
VNum(n) == [t |-> "number", n |-> n]
VBool(b) == [t |-> "boolean", b |-> b]
VNull == [t |-> "null"]
VUndefined == [t |-> "undefined"]
VArr(els) == [t |-> "array", els |-> els]
\* An object: its own enumerable string keys in insertion order.
VObj(ents) == [t |-> "object", ents |-> ents]
Entry(key, val) == [key |-> key, val |-> val]

HasKey(obj, key) == \E i \in 1..Len(obj.ents) : obj.ents[i].key = key

\* obj[key]
Get(obj, key) ==
    IF HasKey(obj, key)
    THEN obj.ents[CHOOSE i \in 1..Len(obj.ents) : obj.ents[i].key = key].val
    ELSE VUndefined

\* obj[key] = val
Put(obj, key, val) ==
    IF HasKey(obj, key)
    THEN VObj([i \in 1..Len(obj.ents) |->
                 IF obj.ents[i].key = key THEN Entry(key, val) ELSE obj.ents[i]])
    ELSE VObj(Append(obj.ents, Entry(key, val)))

\* ToBoolean
Truthy(v) ==
    CASE v.t = "string" -> v.s # <<>>
      [] v.t = "number" -> v.n # 0
      [] v.t = "boolean" -> v.b
      [] v.t \in {"null", "undefined"} -> FALSE
      [] OTHER -> TRUE

startsWithDots(key) == key # <<>> /\ Head(key) = DOTS

(***************************************************************************)
(* Node.getText(): the source text of a node.                              *)
(***************************************************************************)
RECURSIVE getText(_)
RECURSIVE memberText(_)

JoinTexts(texts, sep) ==
    LET f[i \in 0..Len(texts)] ==
            IF i = 0 THEN <<>>
            ELSE IF i = 1 THEN texts[1]
            ELSE f[i - 1] \o <<sep>> \o texts[i]
    IN  f[Len(texts)]

getText(n) ==
    CASE n.kind = "StringLiteral" -> <<n.q>> \o n.raw \o <<n.q>>
      [] n.kind = "NumericLiteral" -> <<ToString(n.n)>>
      [] n.kind = "TrueKeyword" -> <<"true">>
      [] n.kind = "FalseKeyword" -> <<"false">>
      [] n.kind = "NullKeyword" -> <<"null">>
      [] n.kind = "ImportKeyword" -> <<"import">>
      [] n.kind \in {"Identifier", "Other", "PrefixUnaryExpression"} -> n.text
      [] n.kind = "SpreadElement" -> <<DOTS>> \o n.text
      [] n.kind = "ArrayLiteralExpression" ->
            <<"[">> \o JoinTexts([i \in 1..Len(n.els) |-> getText(n.els[i])], ", ") \o <<"]">>
      [] n.kind = "ObjectLiteralExpression" ->
            <<"{ ">> \o JoinTexts([i \in 1..Len(n.props) |-> memberText(n.props[i])], ", ")
                     \o <<" }">>
      [] n.kind = "CallExpression" ->
            getText(n.callee) \o <<"(">>
                \o JoinTexts([i \in 1..Len(n.args) |-> getText(n.args[i])], ", ") \o <<")">>
      [] n.kind = "AwaitExpression" -> <<"await ">> \o getText(n.expr)

memberText(m) ==
    IF isSpreadAssignment(m) THEN <<DOTS>> \o m.expr
    ELSE m.name \o <<": ">> \o getText(m.init)

(***************************************************************************)
(* Decoding: parsePropertyValue and the object parsers.                    *)
(***************************************************************************)
\* propertyName.replace(/^(['"])(.*)\1$/, '$2')
cleanName(name) ==
    IF Len(name) >= 2 /\ Head(name) \in {SQ, DQ} /\ name[Len(name)] = Head(name)
    THEN SubSeq(name, 2, Len(name) - 1)
    ELSE name

spreadKey(m) == <<DOTS>> \o m.expr

parseDynamicImport(call) ==
    LET isImportExpression ==
            \/ call.callee.kind = "ImportKeyword"
            \/ (call.callee.kind = "Identifier" /\ call.callee.text = <<"import">>)
    IN  IF isImportExpression /\ Len(call.args) > 0 /\ isStringLiteral(call.args[1])
        THEN VObj(<<Entry(<<"__dynamicImport">>, VStr(getLiteralValue(call.args[1])))>>)
        ELSE VUndefined

RECURSIVE parsePropertyValue(_)
RECURSIVE parseObjectLiteral(_)

parsePropertyValue(n) ==
    CASE n.kind = "StringLiteral" -> VStr(getLiteralValue(n))
      [] n.kind = "NumericLiteral" -> VNum(n.n)
      [] n.kind = "TrueKeyword" -> VBool(TRUE)
      [] n.kind = "FalseKeyword" -> VBool(FALSE)
      [] n.kind = "NullKeyword" -> VNull
      [] n.kind = "Identifier" /\ n.text = <<"undefined">> -> VUndefined
      [] n.kind = "ArrayLiteralExpression" ->
            VArr([i \in 1..Len(n.els) |-> parsePropertyValue(n.els[i])])
      [] n.kind = "ObjectLiteralExpression" -> parseObjectLiteral(n)
      [] n.kind = "AwaitExpression" /\ n.expr.kind = "CallExpression" ->
            LET dynamicImport == parseDynamicImport(n.expr)
            IN  IF Truthy(dynamicImport) THEN dynamicImport ELSE VStr(getText(n))
      [] OTHER -> VStr(getText(n))

parseObjectLiteral(n) ==
    LET f[i \in 0..Len(n.props)] ==
            IF i = 0 THEN VObj(<<>>)
            ELSE LET m == n.props[i]
                 IN  IF isPropertyAssignment(m)
                     THEN Put(f[i - 1], cleanName(m.name), parsePropertyValue(m.init))
                     ELSE IF isSpreadAssignment(m)
                     THEN Put(f[i - 1], spreadKey(m), VUndefined)
                     ELSE f[i - 1]
    IN  f[Len(n.props)]

parseRulesObject(n) ==
    LET f[i \in 0..Len(n.props)] ==
            IF i = 0 THEN VObj(<<>>)
            ELSE LET m == n.props[i]
                 IN  IF isPropertyAssignment(m)
                     THEN Put(f[i - 1], cleanName(m.name), parsePropertyValue(m.init))
                     ELSE IF isSpreadAssignment(m)
                     THEN Put(f[i - 1], spreadKey(m), VNull)
                     ELSE f[i - 1]
    IN  f[Len(n.props)]

\* The string literals among the elements of an array literal, in order.
stringElements(n) ==
    LET f[i \in 0..Len(n.els)] ==
            IF i = 0 THEN <<>>
            ELSE IF isStringLiteral(n.els[i])
            THEN Append(f[i - 1], getLiteralValue(n.els[i]))
            ELSE f[i - 1]
    IN  f[Len(n.els)]

StrArray(strs) == VArr([i \in 1..Len(strs) |-> VStr(strs[i])])

parseStringArrayProperty(n) ==
    IF isArrayLiteral(n) THEN StrArray(stringElements(n)) ELSE VUndefined

parseRulesProperty(n) == IF isObjectLiteral(n) THEN parseRulesObject(n) ELSE VUndefined

parseObjectProperty(n) == IF isObjectLiteral(n) THEN parseObjectLiteral(n) ELSE VUndefined

parseConfigObject(n) ==
    LET f[i \in 0..Len(n.props)] ==
            IF i = 0 THEN VObj(<<>>)
            ELSE LET m == n.props[i]
                 IN  IF isPropertyAssignment(m)
                     THEN IF m.name \in {<<"files">>, <<"ignores">>}
                          THEN Put(f[i - 1], m.name, parseStringArrayProperty(m.init))
                          ELSE IF m.name = <<"rules">>
                          THEN Put(f[i - 1], m.name, parseRulesProperty(m.init))
                          ELSE IF m.name = <<"languageOptions">>
                          THEN Put(f[i - 1], m.name, parseObjectProperty(m.init))
                          ELSE Put(f[i - 1], m.name, parsePropertyValue(m.init))
                     ELSE IF isSpreadAssignment(m)
                     THEN Put(f[i - 1], spreadKey(m), VUndefined)
                     ELSE f[i - 1]
    IN  f[Len(n.props)]

\* The object-literal elements of the array, in order.
objectElements(arr) ==
    LET f[i \in 0..Len(arr)] ==
            IF i = 0 THEN <<>>
            ELSE IF isObjectLiteral(arr[i]) THEN Append(f[i - 1], arr[i]) ELSE f[i - 1]
    IN  f[Len(arr)]

getConfigs(arr) ==
    LET objs == objectElements(arr)
    IN  [i \in 1..Len(objs) |-> parseConfigObject(objs[i])]

(***************************************************************************)
(* Encoding: valueToString, given as the node its text parses to.          *)
(***************************************************************************)
\* value.replace(/'/g, "\\'")
RECURSIVE EscapeQuotes(_)
EscapeQuotes(s) ==
    IF s = <<>> THEN <<>>
    ELSE IF Head(s) = SQ THEN <<BS, SQ>> \o EscapeQuotes(Tail(s))
    ELSE <<Head(s)>> \o EscapeQuotes(Tail(s))

quoted(name) == <<SQ>> \o name \o <<SQ>>

\* The text between two single quotes is the body of one string literal: a
\* backslash takes the next character with it, and no quote is left bare.
RECURSIVE isLiteralBody(_)
isLiteralBody(raw) ==
    IF raw = <<>> THEN TRUE
    ELSE IF Head(raw) = BS THEN Len(raw) >= 2 /\ isLiteralBody(SubSeq(raw, 3, Len(raw)))
    ELSE Head(raw) # SQ /\ isLiteralBody(Tail(raw))

\* The node that the text 'raw' parses to.
singleQuoted(raw) ==
    IF isLiteralBody(raw) THEN StringLiteral(SQ, raw) ELSE OtherExpression(quoted(raw))

\* The member that the text "'key': initializer" makes.
quotedMember(key, init) ==
    IF isLiteralBody(key) THEN PropertyAssignment(quoted(key), init)
    ELSE MalformedMember(quoted(key), init)

\* String(value) of a number: a negative one reads as a minus sign and a literal.
numberText(n) ==
    IF n < 0 THEN PrefixUnaryExpression(<<"-", ToString(0 - n)>>) ELSE NumericLiteral(n)

RECURSIVE valueToString(_)
valueToString(v) ==
    CASE v.t = "null" -> Keyword("NullKeyword")
      [] v.t = "undefined" -> Identifier(<<"undefined">>)
      [] v.t = "string" -> singleQuoted(EscapeQuotes(v.s))
      [] v.t = "number" -> numberText(v.n)
      [] v.t = "boolean" -> IF v.b THEN Keyword("TrueKeyword") ELSE Keyword("FalseKeyword")
      [] v.t = "array" -> ArrayLiteral([i \in 1..Len(v.els) |-> valueToString(v.els[i])])
      [] v.t = "object" ->
            IF Truthy(Get(v, <<"__dynamicImport">>))
            THEN AwaitExpression(CallExpression(Keyword("ImportKeyword"),
                    <<singleQuoted(Get(v, <<"__dynamicImport">>).s)>>))
            ELSE ObjectLiteral([i \in 1..Len(v.ents) |->
                    IF startsWithDots(v.ents[i].key)
                    THEN SpreadAssignment(Tail(v.ents[i].key))
                    ELSE quotedMember(v.ents[i].key, valueToString(v.ents[i].val))])

(***************************************************************************)
(* Editing one object literal (ts-morph).                                  *)
(***************************************************************************)
\* ObjectLiteralExpression.getProperty(name): the first member whose name
\* node has exactly this text (0 if none). A spread member has no name.
getProperty(obj, name) ==
    LET S == {i \in 1..Len(obj.props) :
                isPropertyAssignment(obj.props[i]) /\ obj.props[i].name = name}
    IN  IF S = {} THEN 0 ELSE Min(S)

setInitializer(obj, i, init) == [obj EXCEPT !.props[i].init = init]

isPropertyName(name) == name # <<>> /\ ~startsWithDots(name)

\* The member that the text "name: initializer" makes.
writtenMember(name, init) ==
    IF isPropertyName(name) THEN PropertyAssignment(name, init)
    ELSE MalformedMember(name, init)

addPropertyAssignment(obj, name, init) ==
    [obj EXCEPT !.props = Append(@, writtenMember(name, init))]

addSpreadAssignment(obj, expr) ==
    [obj EXCEPT !.props = Append(@, SpreadAssignment(expr))]

RemoveAt(seq, i) == SubSeq(seq, 1, i - 1) \o SubSeq(seq, i + 1, Len(seq))

removeMember(obj, i) == [obj EXCEPT !.props = RemoveAt(@, i)]

(***************************************************************************)
(* Lookup by file patterns.                                                *)
(***************************************************************************)
\* A comparison that does not sort: equal only in the same order.
arraysEqualOrdered(a, b) == a = b

arraysEqual(a, b) ==
    IF Len(a) # Len(b) THEN FALSE
    ELSE LET sortedA == Sort(a)
             sortedB == Sort(b)
         IN  \A index \in 1..Len(sortedA) : sortedA[index] = sortedB[index]

\* The test findConfigByFiles and removeConfig make on one element.
matchesFiles(element, files) ==
    /\ isObjectLiteral(element)
    /\ LET i == getProperty(element, <<"files">>)
       IN  /\ i # 0
           /\ isArrayLiteral(element.props[i].init)
           /\ arraysEqual(stringElements(element.props[i].init), files)

\* The index of the element found (0 for null).
findConfigByFiles(arr, files) ==
    LET S == {i \in 1..Len(arr) : matchesFiles(arr[i], files)}
    IN  IF S = {} THEN 0 ELSE Min(S)

(***************************************************************************)
(* addOrUpdateConfig.                                                      *)
(***************************************************************************)
updateRulesProperty(rulesProperty, newRules) ==
    IF ~isObjectLiteral(rulesProperty.init)
    THEN [rulesProperty EXCEPT !.init = valueToString(newRules)]
    ELSE LET f[i \in 0..Len(newRules.ents)] ==
                IF i = 0 THEN rulesProperty.init
                ELSE LET e == newRules.ents[i]
                         existingRule == getProperty(f[i - 1], e.key)
                     IN  IF existingRule # 0
                         THEN setInitializer(f[i - 1], existingRule, valueToString(e.val))
                         ELSE addPropertyAssignment(f[i - 1], quoted(e.key),
                                                    valueToString(e.val))
         IN  [rulesProperty EXCEPT !.init = f[Len(newRules.ents)]]

updateConfigObject(configObj, newConfig) ==
    LET f[i \in 0..Len(newConfig.ents)] ==
            IF i = 0 THEN configObj
            ELSE LET e == newConfig.ents[i]
                     existingProperty == getProperty(f[i - 1], e.key)
                 IN  IF existingProperty # 0
                     THEN IF e.key = <<"rules">> /\ e.val.t = "object"
                          THEN [f[i - 1] EXCEPT !.props[existingProperty] =
                                    updateRulesProperty(@, e.val)]
                          ELSE setInitializer(f[i - 1], existingProperty,
                                              valueToString(e.val))
                     ELSE addPropertyAssignment(f[i - 1], e.key, valueToString(e.val))
    IN  f[Len(newConfig.ents)]

\* A variant that puts the new entry first.
addNewConfigObjectFirst(arr, config) ==
    <<ObjectLiteral([i \in 1..Len(config.ents) |->
          writtenMember(config.ents[i].key, valueToString(config.ents[i].val))])>> \o arr

addNewConfigObject(arr, config) ==
    Append(arr, ObjectLiteral([i \in 1..Len(config.ents) |->
                    writtenMember(config.ents[i].key, valueToString(config.ents[i].val))]))

\* The strings of a decoded string array.
Strings(v) == [i \in 1..Len(v.els) |-> v.els[i].s]

addOrUpdateConfig(arr, config) ==
    LET files == IF Truthy(Get(config, <<"files">>))
                 THEN Strings(Get(config, <<"files">>)) ELSE <<>>
        existingConfig == findConfigByFiles(arr, files)
    IN  IF existingConfig # 0
        THEN [arr EXCEPT ![existingConfig] = updateConfigObject(@, config)]
        ELSE addNewConfigObject(arr, config)

\* A variant that splices at the index found even when nothing was found,
\* which drops the last element.
removeConfigSplicing(arr, filePattern) ==
    LET i == findConfigByFiles(arr, filePattern)
    IN  IF i # 0 THEN RemoveAt(arr, i)
        ELSE IF arr # <<>> THEN RemoveAt(arr, Len(arr)) ELSE arr

\* A variant that removes every matching element, not only the first.
removeConfigEvery(arr, filePattern) ==
    SelectSeq(arr, LAMBDA element : ~matchesFiles(element, filePattern))

removeConfig(arr, filePattern) ==
    LET i == findConfigByFiles(arr, filePattern)
    IN  IF i # 0 THEN RemoveAt(arr, i) ELSE arr

(***************************************************************************)
(* Rules of one configuration.                                             *)
(***************************************************************************)
\* rulesObj.getProperty(ruleName) || rulesObj.getProperty(`'${ruleName}'`)
\*   || rulesObj.getProperty(`"${ruleName}"`)
findRuleProperty(rulesObj, ruleName) ==
    IF getProperty(rulesObj, ruleName) # 0 THEN getProperty(rulesObj, ruleName)
    ELSE IF getProperty(rulesObj, quoted(ruleName)) # 0
    THEN getProperty(rulesObj, quoted(ruleName))
    ELSE getProperty(rulesObj, <<DQ>> \o ruleName \o <<DQ>>)

ruleConfigObject(filePattern, ruleName, ruleConfig) ==
    VObj(<<Entry(<<"files">>, StrArray(filePattern)),
           Entry(<<"rules">>, VObj(<<Entry(ruleName, ruleConfig)>>))>>)

\* A variant that writes the rules object anew from its decoded value.
addRuleReencoding(arr, filePattern, ruleName, ruleConfig) ==
    LET c == findConfigByFiles(arr, filePattern)
    IN  IF c = 0
        THEN addOrUpdateConfig(arr, ruleConfigObject(filePattern, ruleName, ruleConfig))
        ELSE LET rulesProperty == getProperty(arr[c], <<"rules">>)
             IN  IF rulesProperty # 0 /\ isObjectLiteral(arr[c].props[rulesProperty].init)
                 THEN [arr EXCEPT ![c].props[rulesProperty].init =
                          valueToString(Put(parseRulesObject(@), ruleName, ruleConfig))]
                 ELSE arr

\* A variant that replaces the value of a rule the rules object already names.
addRuleReplacing(arr, filePattern, ruleName, ruleConfig) ==
    LET c == findConfigByFiles(arr, filePattern)
    IN  IF c = 0
        THEN addOrUpdateConfig(arr, ruleConfigObject(filePattern, ruleName, ruleConfig))
        ELSE LET rulesProperty == getProperty(arr[c], <<"rules">>)
             IN  IF rulesProperty # 0 /\ isObjectLiteral(arr[c].props[rulesProperty].init)
                 THEN LET ruleProperty ==
                              findRuleProperty(arr[c].props[rulesProperty].init, ruleName)
                      IN  IF ruleProperty # 0
                          THEN [arr EXCEPT ![c].props[rulesProperty].init =
                                    setInitializer(@, ruleProperty,
                                                   valueToString(ruleConfig))]
                          ELSE [arr EXCEPT ![c].props[rulesProperty].init =
                                    addPropertyAssignment(@, quoted(ruleName),
                                                          valueToString(ruleConfig))]
                 ELSE arr

addRule(arr, filePattern, ruleName, ruleConfig) ==
    LET c == findConfigByFiles(arr, filePattern)
    IN  IF c = 0
        THEN addOrUpdateConfig(arr, ruleConfigObject(filePattern, ruleName, ruleConfig))
        ELSE LET rulesProperty == getProperty(arr[c], <<"rules">>)
                 added == PropertyAssignment(quoted(ruleName), valueToString(ruleConfig))
             IN  IF rulesProperty # 0
                 THEN IF isObjectLiteral(arr[c].props[rulesProperty].init)
                      THEN [arr EXCEPT ![c].props[rulesProperty].init =
                                addPropertyAssignment(@, quoted(ruleName),
                                                      valueToString(ruleConfig))]
                      ELSE arr
                 ELSE [arr EXCEPT ![c] =
                          addPropertyAssignment(@, <<"rules">>, ObjectLiteral(<<added>>))]

removeRule(arr, filePattern, ruleName) ==
    LET c == findConfigByFiles(arr, filePattern)
    IN  IF c = 0 THEN arr
        ELSE LET rulesProperty == getProperty(arr[c], <<"rules">>)
             IN  IF rulesProperty # 0 /\ isObjectLiteral(arr[c].props[rulesProperty].init)
                 THEN LET ruleProperty ==
                              findRuleProperty(arr[c].props[rulesProperty].init, ruleName)
                      IN  IF ruleProperty # 0
                          THEN [arr EXCEPT ![c].props[rulesProperty].init =
                                    removeMember(@, ruleProperty)]
                          ELSE arr
                 ELSE arr

\* A variant that never looks the rule up and always appends it.
updateRuleAppending(arr, filePattern, ruleName, ruleConfig) ==
    addRule(arr, filePattern, ruleName, ruleConfig)

updateRule(arr, filePattern, ruleName, ruleConfig) ==
    LET c == findConfigByFiles(arr, filePattern)
    IN  IF c = 0 THEN addRule(arr, filePattern, ruleName, ruleConfig)
        ELSE LET rulesProperty == getProperty(arr[c], <<"rules">>)
             IN  IF rulesProperty # 0 /\ isObjectLiteral(arr[c].props[rulesProperty].init)
                 THEN LET ruleProperty ==
                              findRuleProperty(arr[c].props[rulesProperty].init, ruleName)
                      IN  IF ruleProperty # 0
                          THEN [arr EXCEPT ![c].props[rulesProperty].init =
                                    setInitializer(@, ruleProperty,
                                                   valueToString(ruleConfig))]
                          ELSE [arr EXCEPT ![c].props[rulesProperty].init =
                                    addPropertyAssignment(@, quoted(ruleName),
                                                          valueToString(ruleConfig))]
                 ELSE arr

ensureRule(arr, filePattern, ruleName, ruleConfig) ==
    updateRule(arr, filePattern, ruleName, ruleConfig)

removeRuleIfExists(arr, filePattern, ruleName) == removeRule(arr, filePattern, ruleName)

addMultipleRules(arr, filePattern, rules) ==
    LET f[i \in 0..Len(rules.ents)] ==
            IF i = 0 THEN arr
            ELSE addRule(f[i - 1], filePattern, rules.ents[i].key, rules.ents[i].val)
    IN  f[Len(rules.ents)]

removeMultipleRules(arr, filePattern, ruleNames) ==
    LET f[i \in 0..Len(ruleNames)] ==
            IF i = 0 THEN arr ELSE removeRule(f[i - 1], filePattern, ruleNames[i])
    IN  f[Len(ruleNames)]

getRulesForPattern(arr, filePattern) ==
    LET c == findConfigByFiles(arr, filePattern)
    IN  IF c = 0 THEN VUndefined
        ELSE LET rulesProperty == getProperty(arr[c], <<"rules">>)
             IN  IF rulesProperty = 0 THEN VUndefined
                 ELSE IF ~isObjectLiteral(arr[c].props[rulesProperty].init) THEN VUndefined
                 ELSE parseRulesObject(arr[c].props[rulesProperty].init)

hasRule(arr, filePattern, ruleName) ==
    LET rules == getRulesForPattern(arr, filePattern)
    IN  IF Truthy(rules) THEN HasKey(rules, ruleName) ELSE FALSE

getRule(arr, filePattern, ruleName) ==
    LET rules == getRulesForPattern(arr, filePattern)
    IN  IF Truthy(rules) THEN Get(rules, ruleName) ELSE VUndefined

clearAllRules(arr, filePattern) ==
    LET c == findConfigByFiles(arr, filePattern)
    IN  IF c = 0 THEN arr
        ELSE LET rulesProperty == getProperty(arr[c], <<"rules">>)
             IN  IF rulesProperty # 0
                 THEN [arr EXCEPT ![c] = removeMember(@, rulesProperty)]
                 ELSE arr

mergeRulesFromPattern(arr, sourcePattern, targetPattern) ==
    LET sourceRules == getRulesForPattern(arr, sourcePattern)
    IN  IF Truthy(sourceRules) THEN addMultipleRules(arr, targetPattern, sourceRules)
        ELSE arr

\* A variant that appends the copy without looking the target pattern up.
copyConfigAppending(arr, sourcePattern, targetPattern) ==
    LET configs == getConfigs(arr)
        S == {i \in 1..Len(configs) :
                /\ Truthy(Get(configs[i], <<"files">>))
                /\ arraysEqual(Strings(Get(configs[i], <<"files">>)), sourcePattern)}
    IN  IF S # {}
        THEN addNewConfigObject(arr, Put(configs[Min(S)], <<"files">>,
                                         StrArray(targetPattern)))
        ELSE arr

copyConfigToPattern(arr, sourcePattern, targetPattern) ==
    LET configs == getConfigs(arr)
        S == {i \in 1..Len(configs) :
                /\ Truthy(Get(configs[i], <<"files">>))
                /\ arraysEqual(Strings(Get(configs[i], <<"files">>)), sourcePattern)}
    IN  IF S # {}
        THEN addOrUpdateConfig(arr, Put(configs[Min(S)], <<"files">>,
                                        StrArray(targetPattern)))
        ELSE arr

(***************************************************************************)
(* setLanguageOptions.                                                     *)
(***************************************************************************)
RECURSIVE JsonEscape(_)
JsonEscape(s) ==
    IF s = <<>> THEN <<>>
    ELSE IF Head(s) \in {DQ, BS} THEN <<BS, Head(s)>> \o JsonEscape(Tail(s))
    ELSE <<Head(s)>> \o JsonEscape(Tail(s))

\* JSON.stringify(value), given as the node its text parses to.
RECURSIVE JSONstringify(_)
JSONstringify(v) ==
    CASE v.t = "string" -> StringLiteral(DQ, JsonEscape(v.s))
      [] v.t = "number" -> NumericLiteral(v.n)
      [] v.t = "boolean" -> IF v.b THEN Keyword("TrueKeyword") ELSE Keyword("FalseKeyword")
      [] v.t \in {"null", "undefined"} -> Keyword("NullKeyword")
      [] v.t = "array" -> ArrayLiteral([i \in 1..Len(v.els) |-> JSONstringify(v.els[i])])
      [] v.t = "object" ->
            LET f[i \in 0..Len(v.ents)] ==
                    IF i = 0 THEN <<>>
                    ELSE IF v.ents[i].val.t = "undefined" THEN f[i - 1]
                    ELSE Append(f[i - 1],
                                PropertyAssignment(<<DQ>> \o JsonEscape(v.ents[i].key) \o <<DQ>>,
                                                   JSONstringify(v.ents[i].val)))
            IN  ObjectLiteral(f[Len(v.ents)])

\* typeof parser === 'string' ? `'${parser}'` : JSON.stringify(parser)
parserInitializer(parser) ==
    IF parser.t = "string" THEN StringLiteral(SQ, parser.s) ELSE JSONstringify(parser)

\* { ...(parser && { parser }), ...(parserOptions && { parserOptions }) }
languageOptionsValue(parser, parserOptions) ==
    VObj((IF Truthy(parser) THEN <<Entry(<<"parser">>, parser)>> ELSE <<>>)
         \o (IF Truthy(parserOptions)
             THEN <<Entry(<<"parserOptions">>, parserOptions)>> ELSE <<>>))

setOrAddProperty(obj, name, init) ==
    IF getProperty(obj, name) # 0 THEN setInitializer(obj, getProperty(obj, name), init)
    ELSE addPropertyAssignment(obj, name, init)

setLanguageOptions(arr, filePattern, parser, parserOptions) ==
    LET c == findConfigByFiles(arr, filePattern)
    IN  IF c = 0
        THEN addOrUpdateConfig(arr,
                VObj(<<Entry(<<"files">>, StrArray(filePattern)),
                       Entry(<<"languageOptions">>,
                             languageOptionsValue(parser, parserOptions))>>))
        ELSE LET languageOptionsProperty == getProperty(arr[c], <<"languageOptions">>)
             IN  IF languageOptionsProperty = 0
                 THEN [arr EXCEPT ![c] = addPropertyAssignment(@, <<"languageOptions">>,
                        ObjectLiteral(
                          (IF Truthy(parser)
                           THEN <<PropertyAssignment(<<"parser">>, parserInitializer(parser))>>
                           ELSE <<>>)
                          \o (IF Truthy(parserOptions)
                              THEN <<PropertyAssignment(<<"parserOptions">>,
                                                        JSONstringify(parserOptions))>>
                              ELSE <<>>)))]
                 ELSE IF isObjectLiteral(arr[c].props[languageOptionsProperty].init)
                 THEN LET init0 == arr[c].props[languageOptionsProperty].init
                          init1 == IF Truthy(parser)
                                   THEN setOrAddProperty(init0, <<"parser">>,
                                                         parserInitializer(parser))
                                   ELSE init0
                          init2 == IF Truthy(parserOptions)
                                   THEN setOrAddProperty(init1, <<"parserOptions">>,
                                                         JSONstringify(parserOptions))
                                   ELSE init1
                      IN  [arr EXCEPT ![c].props[languageOptionsProperty].init = init2]
                 ELSE arr

(***************************************************************************)
(* Spread members.                                                         *)
(***************************************************************************)
\* The first spread member whose expression text is spreadExpression (0 if none).
\* A variant that takes the last matching spread member, not the first.
findSpreadLast(obj, spreadExpression) ==
    LET S == {i \in 1..Len(obj.props) :
                isSpreadAssignment(obj.props[i]) /\ obj.props[i].expr = spreadExpression}
    IN  IF S = {} THEN 0 ELSE CHOOSE i \in S : \A j \in S : j <= i

\* A variant that never finds the spread.
findSpreadNever(obj, spreadExpression) == 0

findSpread(obj, spreadExpression) ==
    LET S == {i \in 1..Len(obj.props) :
                isSpreadAssignment(obj.props[i]) /\ obj.props[i].expr = spreadExpression}
    IN  IF S = {} THEN 0 ELSE Min(S)

\* addSpreadToRules and removeSpreadFromRules throw before they change anything.
spreadToRulesThrows(arr, filePattern) ==
    LET c == findConfigByFiles(arr, filePattern)
    IN  \/ c = 0
        \/ getProperty(arr[c], <<"rules">>) = 0
        \/ ~isObjectLiteral(arr[c].props[getProperty(arr[c], <<"rules">>)].init)

spreadToConfigThrows(arr, filePattern) == findConfigByFiles(arr, filePattern) = 0

addSpreadToRules(arr, filePattern, spreadExpression) ==
    IF spreadToRulesThrows(arr, filePattern) THEN arr
    ELSE LET c == findConfigByFiles(arr, filePattern)
             rulesProperty == getProperty(arr[c], <<"rules">>)
         IN  [arr EXCEPT ![c].props[rulesProperty].init =
                 addSpreadAssignment(@, spreadExpression)]

removeSpreadFromRules(arr, filePattern, spreadExpression) ==
    IF spreadToRulesThrows(arr, filePattern) THEN arr
    ELSE LET c == findConfigByFiles(arr, filePattern)
             rulesProperty == getProperty(arr[c], <<"rules">>)
             property == findSpread(arr[c].props[rulesProperty].init, spreadExpression)
         IN  IF property # 0
             THEN [arr EXCEPT ![c].props[rulesProperty].init = removeMember(@, property)]
             ELSE arr

\* A variant that makes up the entry it does not find.
addSpreadToConfigCreating(arr, filePattern, spreadExpression) ==
    IF findConfigByFiles(arr, filePattern) = 0
    THEN Append(arr, ObjectLiteral(<<PropertyAssignment(<<"files">>,
                         valueToString(StrArray(filePattern))),
                     SpreadAssignment(spreadExpression)>>))
    ELSE [arr EXCEPT ![findConfigByFiles(arr, filePattern)] =
             addSpreadAssignment(@, spreadExpression)]

addSpreadToConfig(arr, filePattern, spreadExpression) ==
    IF spreadToConfigThrows(arr, filePattern) THEN arr
    ELSE [arr EXCEPT ![findConfigByFiles(arr, filePattern)] =
             addSpreadAssignment(@, spreadExpression)]

removeSpreadFromConfig(arr, filePattern, spreadExpression) ==
    IF spreadToConfigThrows(arr, filePattern) THEN arr
    ELSE LET c == findConfigByFiles(arr, filePattern)
             property == findSpread(arr[c], spreadExpression)
         IN  IF property # 0 THEN [arr EXCEPT ![c] = removeMember(@, property)] ELSE arr

(***************************************************************************)
(* The session: the files it may be constructed from and the arguments     *)
(* its operations are called with.                                         *)
(***************************************************************************)
PatA == <<"a">>
PatB == <<"b">>
Patterns == {<<PatA>>, <<PatA, PatB>>, <<PatB, PatA>>}
RuleNames == {<<"x">>, <<"y">>}
RuleValues == {VNum(1), VNum(2)}
SpreadExpressions == {<<"baseRules">>}

FilesNode(files) == ArrayLiteral([i \in 1..Len(files) |-> StringLiteral(SQ, files[i])])
FilesProperty(files) == PropertyAssignment(<<"files">>, FilesNode(files))
RulesProperty(init) == PropertyAssignment(<<"rules">>, init)

\* export default [];
EmptyFile == <<>>

\* export default [...base, { files: ['a'], rules: { ...baseRules, "opaque": fn() } }];
OpaqueFile ==
    <<SpreadElement(<<"base">>),
      ObjectLiteral(<<FilesProperty(<<PatA>>),
                      RulesProperty(ObjectLiteral(
                          <<SpreadAssignment(<<"baseRules">>),
                            PropertyAssignment(<<DQ, "opaque", DQ>>,
                                               OtherExpression(<<"fn()">>))>>))>>)>>

\* export default [{ files: ['a', 'b'], rules: { x: 1, 'y': 'error' } }];
QuotedFile ==
    <<ObjectLiteral(<<FilesProperty(<<PatA, PatB>>),
                      RulesProperty(ObjectLiteral(
                          <<PropertyAssignment(<<"x">>, NumericLiteral(1)),
                            PropertyAssignment(quoted(<<"y">>),
                                               StringLiteral(SQ, <<"error">>))>>))>>)>>

\* export default [{ files: ['a'] }, { files: ['b', 'a'], rules: sharedRules }];
BareFile ==
    <<ObjectLiteral(<<FilesProperty(<<PatA>>)>>),
      ObjectLiteral(<<FilesProperty(<<PatB, PatA>>),
                      RulesProperty(OtherExpression(<<"sharedRules">>))>>)>>

\* export default [{ ...baseRules, files: ['b', 'a'], ...baseRules }];
SpreadFile ==
    <<ObjectLiteral(<<SpreadAssignment(<<"baseRules">>),
                      FilesProperty(<<PatB, PatA>>),
                      SpreadAssignment(<<"baseRules">>)>>)>>

\* export default [{ files: ['a', 'b'] }, ...base, { files: ['b', 'a'], rules: { x: 1 } }];
TwinFile ==
    <<ObjectLiteral(<<FilesProperty(<<PatA, PatB>>)>>),
      SpreadElement(<<"base">>),
      ObjectLiteral(<<FilesProperty(<<PatB, PatA>>),
                      RulesProperty(ObjectLiteral(
                          <<PropertyAssignment(<<"x">>, NumericLiteral(1))>>))>>)>>

InitialFiles == {EmptyFile, OpaqueFile, QuotedFile, BareFile, SpreadFile, TwinFile}

\* The configuration objects addOrUpdateConfig is called with.
TwoRules == VObj(<<Entry(<<"x">>, VNum(1)), Entry(<<"y">>, VNum(2))>>)

FilesAndRules(P, rules) ==
    VObj(<<Entry(<<"files">>, StrArray(P)), Entry(<<"rules">>, rules)>>)

\* { '...base': true, files: P, rules: { '...baseRules': true, 'x': 1 } }
SpreadConfig(P) ==
    VObj(<<Entry(<<DOTS, "base">>, VBool(TRUE)),
           Entry(<<"files">>, StrArray(P)),
           Entry(<<"rules">>, VObj(<<Entry(<<DOTS, "baseRules">>, VBool(TRUE)),
                                     Entry(<<"x">>, VNum(1))>>))>>)

ConfigObjects ==
    {ruleConfigObject(P, <<"x">>, v) : P \in Patterns, v \in RuleValues}
    \cup {FilesAndRules(<<PatB, PatA>>, TwoRules), SpreadConfig(<<PatA>>),
          VObj(<<Entry(<<"rules">>, VObj(<<Entry(<<"y">>, VNum(1))>>))>>)}

\* The (parser, parserOptions) pairs setLanguageOptions is called with.
LanguageOptionInputs ==
    {<<VStr(<<"parser">>), VUndefined>>,
     <<VUndefined, VObj(<<Entry(<<"x">>, VNum(1))>>)>>}

(***************************************************************************)
(* The source text of a configuration file, as far as the constructor      *)
(* looks at it: its first export assignment, if it has one. Both           *)
(* `export default <expr>` and `export = <expr>` are export assignments.   *)
(***************************************************************************)
ExportDefault(expr) == [statement |-> "ExportDefault", expr |-> expr]
ExportEquals(expr) == [statement |-> "ExportEquals", expr |-> expr]
NoExport == [statement |-> "None"]   \* no export assignment (also the empty text)
Absent == [statement |-> "Absent"]   \* the workspace has no file at the path

filePath == <<"eslint.config.mjs">>

\* this.tree.read(this.filePath)?.toString() || ''
readFile(workspace) == IF workspace = Absent THEN NoExport ELSE workspace

\* sourceFile.getExportAssignments()
getExportAssignments(text) ==
    IF text.statement \in {"ExportDefault", "ExportEquals"} THEN <<text>> ELSE <<>>

\* parseConfigArray throws.
parseConfigArrayThrows(text) ==
    \/ getExportAssignments(text) = <<>>
    \/ ~isArrayLiteral(getExportAssignments(text)[1].expr)

\* this.configArray after parseConfigArray.
parseConfigArray(text) == getExportAssignments(text)[1].expr.els

\* sourceFile.getFullText(): the text with the array as it is now.
getContent(text, arr) == [text EXCEPT !.expr = ArrayLiteral(arr)]

\* A variant that keeps the text it read at construction.
savedContentAsRead(text, arr) == text

\* save(): const content = this.sourceFile.getFullText()
savedContent(text, arr) == getContent(text, arr)

Init ==
    /\ configArray \in InitialFiles
    /\ op = [name |-> "constructor"]
    /\ pre = configArray
    /\ calls = 0
    /\ session = "live"
    /\ sourceFile = ExportDefault(ArrayLiteral(configArray))
    /\ tree = sourceFile
    /\ writes = <<>>
    /\ imports = <<>>

\* One call that returns: the tree becomes `result`.
Call(record, result) ==
    /\ calls < MaxCalls
    /\ calls' = calls + 1
    /\ configArray' = result
    /\ op' = record
    /\ pre' = configArray
    /\ UNCHANGED <<sessionVars, imports>>

AddOrUpdateConfig ==
    \E config \in ConfigObjects :
        Call([name |-> "addOrUpdateConfig", config |-> config],
             addOrUpdateConfig(configArray, config))

RemoveConfig ==
    \E P \in Patterns :
        Call([name |-> "removeConfig", filePattern |-> P], removeConfig(configArray, P))

AddRule ==
    \E P \in Patterns, n \in RuleNames :
        Call([name |-> "addRule", filePattern |-> P, ruleName |-> n,
              ruleConfig |-> VNum(2)],
             addRule(configArray, P, n, VNum(2)))

RemoveRule ==
    \E P \in Patterns, n \in RuleNames :
        Call([name |-> "removeRule", filePattern |-> P, ruleName |-> n],
             removeRule(configArray, P, n))

UpdateRule ==
    \E P \in Patterns :
        Call([name |-> "updateRule", filePattern |-> P, ruleName |-> <<"y">>,
              ruleConfig |-> VNum(1)],
             updateRule(configArray, P, <<"y">>, VNum(1)))

EnsureRule ==
    \E P \in Patterns, v \in RuleValues :
        Call([name |-> "ensureRule", filePattern |-> P, ruleName |-> <<"x">>,
              ruleConfig |-> v],
             ensureRule(configArray, P, <<"x">>, v))

RemoveRuleIfExists ==
    \E P \in {<<PatB, PatA>>} :
        Call([name |-> "removeRuleIfExists", filePattern |-> P, ruleName |-> <<"y">>],
             removeRuleIfExists(configArray, P, <<"y">>))

AddMultipleRules ==
    \E P \in {<<PatA>>, <<PatB, PatA>>} :
        Call([name |-> "addMultipleRules", filePattern |-> P, rules |-> TwoRules],
             addMultipleRules(configArray, P, TwoRules))

RemoveMultipleRules ==
    \E P \in {<<PatA>>, <<PatB, PatA>>} :
        Call([name |-> "removeMultipleRules", filePattern |-> P,
              ruleNames |-> <<<<"x">>, <<"y">>>>],
             removeMultipleRules(configArray, P, <<<<"x">>, <<"y">>>>))

ClearAllRules ==
    \E P \in Patterns :
        Call([name |-> "clearAllRules", filePattern |-> P], clearAllRules(configArray, P))

MergeRulesFromPattern ==
    \E S \in {<<PatA>>, <<PatB, PatA>>}, T \in {<<PatA>>, <<PatA, PatB>>} :
        Call([name |-> "mergeRulesFromPattern", sourcePattern |-> S, targetPattern |-> T],
             mergeRulesFromPattern(configArray, S, T))

CopyConfigToPattern ==
    \E S \in {<<PatA>>, <<PatB, PatA>>}, T \in {<<PatA>>, <<PatA, PatB>>} :
        Call([name |-> "copyConfigToPattern", sourcePattern |-> S, targetPattern |-> T],
             copyConfigToPattern(configArray, S, T))

SetLanguageOptions ==
    \E P \in {<<PatA>>, <<PatB, PatA>>}, o \in LanguageOptionInputs :
        Call([name |-> "setLanguageOptions", filePattern |-> P,
              parser |-> o[1], parserOptions |-> o[2]],
             setLanguageOptions(configArray, P, o[1], o[2]))

AddSpreadToRules ==
    \E P \in {<<PatA>>, <<PatB, PatA>>}, e \in SpreadExpressions :
        Call([name |-> "addSpreadToRules", filePattern |-> P, spreadExpression |-> e,
              threw |-> spreadToRulesThrows(configArray, P)],
             addSpreadToRules(configArray, P, e))

RemoveSpreadFromRules ==
    \E P \in {<<PatA>>, <<PatB, PatA>>}, e \in SpreadExpressions :
        Call([name |-> "removeSpreadFromRules", filePattern |-> P, spreadExpression |-> e,
              threw |-> spreadToRulesThrows(configArray, P)],
             removeSpreadFromRules(configArray, P, e))

AddSpreadToConfig ==
    \E P \in {<<PatA>>, <<PatB, PatA>>}, e \in SpreadExpressions :
        Call([name |-> "addSpreadToConfig", filePattern |-> P, spreadExpression |-> e,
              threw |-> spreadToConfigThrows(configArray, P)],
             addSpreadToConfig(configArray, P, e))

RemoveSpreadFromConfig ==
    \E P \in {<<PatA>>, <<PatB, PatA>>}, e \in SpreadExpressions :
        Call([name |-> "removeSpreadFromConfig", filePattern |-> P, spreadExpression |-> e,
              threw |-> spreadToConfigThrows(configArray, P)],
             removeSpreadFromConfig(configArray, P, e))

Next ==
    \/ AddOrUpdateConfig
    \/ RemoveConfig
    \/ AddRule
    \/ RemoveRule
    \/ UpdateRule
    \/ EnsureRule
    \/ RemoveRuleIfExists
    \/ AddMultipleRules
    \/ RemoveMultipleRules
    \/ ClearAllRules
    \/ MergeRulesFromPattern
    \/ CopyConfigToPattern
    \/ SetLanguageOptions
    \/ AddSpreadToRules
    \/ RemoveSpreadFromRules
    \/ AddSpreadToConfig
    \/ RemoveSpreadFromConfig

Spec == Init /\ [][Next]_vars

(***************************************************************************)
(* A session from its construction on a workspace to its saves.            *)
(***************************************************************************)
\* The files the workspace may hold at filePath.
WorkspaceFiles ==
    {Absent, NoExport,
     ExportDefault(ObjectLiteral(<<FilesProperty(<<PatA>>)>>)),
     ExportDefault(Identifier(<<"config">>)),
     ExportEquals(ArrayLiteral(QuotedFile))}
    \cup {ExportDefault(ArrayLiteral(f)) : f \in InitialFiles}

SessionInit ==
    /\ session = "none"
    /\ tree \in WorkspaceFiles
    /\ sourceFile = NoExport
    /\ writes = <<>>
    /\ configArray = <<>>
    /\ op = [name |-> "none"]
    /\ pre = <<>>
    /\ calls = 0
    /\ imports = <<>>

\* new EslintTsMorphUtil(tree, filePath)
Construct ==
    /\ session = "none"
    /\ LET text == readFile(tree)
       IN  IF parseConfigArrayThrows(text)
           THEN /\ session' = "failed"
                /\ op' = [name |-> "constructor", threw |-> TRUE]
                /\ UNCHANGED <<sourceFile, configArray>>
           ELSE /\ session' = "live"
                /\ op' = [name |-> "constructor", threw |-> FALSE]
                /\ sourceFile' = text
                /\ configArray' = parseConfigArray(text)
    /\ pre' = configArray'
    /\ UNCHANGED <<tree, writes, calls, imports>>

\* Any of the editing operations, on a live session.
Edit == session = "live" /\ Next

\* getConfigs(), getContent(), hasRule(...): nothing changes but the record of the call.
Query ==
    /\ session = "live"
    /\ calls < MaxCalls
    /\ calls' = calls + 1
    /\ \E q \in {"getConfigs", "getContent", "hasRule"} :
          op' = [name |-> q, content |-> getContent(sourceFile, configArray)]
    /\ pre' = configArray
    /\ UNCHANGED <<configArray, sessionVars, imports>>

\* save(): one write of the current text to the workspace.
Save ==
    /\ session = "live"
    /\ calls < MaxCalls
    /\ calls' = calls + 1
    /\ op' = [name |-> "save"]
    /\ pre' = configArray
    /\ writes' = Append(writes, [path |-> filePath,
                                 content |-> savedContent(sourceFile, configArray)])
    /\ tree' = savedContent(sourceFile, configArray)
    /\ UNCHANGED <<configArray, session, sourceFile, imports>>

SessionNext ==
    \/ Construct
    \/ Edit
    \/ Query
    \/ Save

SessionSpec == SessionInit /\ [][SessionNext]_vars

(***************************************************************************)
(* ImportTsMorphUtil: the import declarations of a source file. A          *)
(* declaration is its module and its specifiers in the order of the text:  *)
(* the default import, the namespace import, the named imports. The text   *)
(* of a specifier argument and of an import statement is a sequence of     *)
(* tokens.                                                                 *)
(***************************************************************************)
ImportSpecifier(type, name, alias) == [type |-> type, name |-> name, alias |-> alias]

NoAlias == ""

ImportDeclaration(module, specifiers) == [module |-> module, specifiers |-> specifiers]

\* The position of the first specifier of the type (0 if none).
specifierOf(importDecl, type) ==
    LET S == {i \in 1..Len(importDecl.specifiers) : importDecl.specifiers[i].type = type}
    IN  IF S = {} THEN 0 ELSE Min(S)

getDefaultImport(importDecl) == specifierOf(importDecl, "default")

getNamespaceImport(importDecl) == specifierOf(importDecl, "namespace")

\* The positions of the named imports.
getNamedImports(importDecl) ==
    {i \in 1..Len(importDecl.specifiers) : importDecl.specifiers[i].type = "named"}

findImportDeclaration(decls, moduleSpecifier) ==
    LET S == {i \in 1..Len(decls) : decls[i].module = moduleSpecifier}
    IN  IF S = {} THEN 0 ELSE Min(S)

\* ni.getName() === specifier || ni.getAliasNode()?.getText() === specifier
namedImportMatches(namedImport, specifier) ==
    \/ <<namedImport.name>> = specifier
    \/ (namedImport.alias # NoAlias /\ <<namedImport.alias>> = specifier)

\* A variant that looks only at the names of the named imports, not at their aliases.
hasImportSpecifierByName(importDecl, specifier, importType) ==
    /\ specifierOf(importDecl, importType) # 0
    /\ \E i \in 1..Len(importDecl.specifiers) :
          /\ importDecl.specifiers[i].type = importType
          /\ <<importDecl.specifiers[i].name>> = specifier
          /\ (importType # "named" => i = specifierOf(importDecl, importType))

hasImportSpecifier(importDecl, specifier, importType) ==
    CASE importType = "default" ->
            /\ getDefaultImport(importDecl) # 0
            /\ <<importDecl.specifiers[getDefaultImport(importDecl)].name>> = specifier
      [] importType = "namespace" ->
            /\ getNamespaceImport(importDecl) # 0
            /\ <<importDecl.specifiers[getNamespaceImport(importDecl)].name>> = specifier
      [] importType = "named" ->
            \E i \in getNamedImports(importDecl) :
                namedImportMatches(importDecl.specifiers[i], specifier)
      [] OTHER -> FALSE

\* The named imports that the text written between the braces parses to.
RECURSIVE parseNamedImports(_)
parseNamedImports(text) ==
    IF text = <<>> THEN <<>>
    ELSE IF Head(text) = "," THEN parseNamedImports(Tail(text))
    ELSE IF Len(text) >= 3 /\ text[2] = "as"
    THEN <<ImportSpecifier("named", text[1], text[3])>>
             \o parseNamedImports(SubSeq(text, 4, Len(text)))
    ELSE <<ImportSpecifier("named", text[1], NoAlias)>> \o parseNamedImports(Tail(text))

\* ts-morph: the default import is written first.
setDefaultImport(importDecl, specifier) ==
    [importDecl EXCEPT !.specifiers =
        <<ImportSpecifier("default", specifier[1], NoAlias)>> \o @]

\* ts-morph: the namespace import is written after the default import.
setNamespaceImport(importDecl, specifier) ==
    LET d == getDefaultImport(importDecl)
    IN  [importDecl EXCEPT !.specifiers =
            SubSeq(@, 1, d) \o <<ImportSpecifier("namespace", specifier[1], NoAlias)>>
                \o SubSeq(@, d + 1, Len(@))]

addNamedImport(importDecl, specifier) ==
    [importDecl EXCEPT !.specifiers = @ \o parseNamedImports(specifier)]

\* ts-morph refuses a namespace import next to named imports, and a named
\* import next to a namespace import: the call throws and the text is kept.
addSpecifierThrows(importDecl, specifier, importType) ==
    \/ /\ importType = "namespace"
       /\ getNamespaceImport(importDecl) = 0
       /\ getNamedImports(importDecl) # {}
    \/ /\ importType = "named"
       /\ ~hasImportSpecifier(importDecl, specifier, "named")
       /\ getNamespaceImport(importDecl) # 0

\* A variant that sets the specifier without looking for one already there.
addSpecifierUnguarded(importDecl, specifier, importType) ==
    CASE importType = "default" -> setDefaultImport(importDecl, specifier)
      [] importType = "namespace" -> setNamespaceImport(importDecl, specifier)
      [] importType = "named" -> addNamedImport(importDecl, specifier)
      [] OTHER -> importDecl

\* A variant that adds nothing.
addSpecifierNever(importDecl, specifier, importType) == importDecl

addSpecifierToImport(importDecl, specifier, importType) ==
    CASE importType = "default" ->
            IF getDefaultImport(importDecl) = 0
            THEN setDefaultImport(importDecl, specifier) ELSE importDecl
      [] importType = "namespace" ->
            IF getNamespaceImport(importDecl) = 0
            THEN setNamespaceImport(importDecl, specifier) ELSE importDecl
      [] importType = "named" ->
            IF ~hasImportSpecifier(importDecl, specifier, "named")
            THEN addNamedImport(importDecl, specifier) ELSE importDecl
      [] OTHER -> importDecl

createImportDeclaration(decls, specifier, moduleSpecifier, importType) ==
    Append(decls, ImportDeclaration(moduleSpecifier,
        CASE importType = "default" -> <<ImportSpecifier("default", specifier[1], NoAlias)>>
          [] importType = "namespace" ->
                <<ImportSpecifier("namespace", specifier[1], NoAlias)>>
          [] importType = "named" -> parseNamedImports(specifier)
          [] OTHER -> <<>>))

ensureImportThrows(decls, importSpecifier, moduleSpecifier, importType) ==
    LET existingImport == findImportDeclaration(decls, moduleSpecifier)
    IN  /\ existingImport # 0
        /\ importType # "full"
        /\ ~hasImportSpecifier(decls[existingImport], importSpecifier, importType)
        /\ addSpecifierThrows(decls[existingImport], importSpecifier, importType)

\* A variant that writes a new declaration without looking for an existing one.
ensureImportCreating(decls, importSpecifier, moduleSpecifier, importType) ==
    createImportDeclaration(decls, importSpecifier, moduleSpecifier, importType)

ensureImport(decls, importSpecifier, moduleSpecifier, importType) ==
    LET existingImport == findImportDeclaration(decls, moduleSpecifier)
    IN  IF existingImport # 0
        THEN IF importType = "full"
                  \/ hasImportSpecifier(decls[existingImport], importSpecifier, importType)
             THEN decls
             ELSE IF ensureImportThrows(decls, importSpecifier, moduleSpecifier, importType)
             THEN decls
             ELSE [decls EXCEPT ![existingImport] =
                      addSpecifierToImport(@, importSpecifier, importType)]
        ELSE createImportDeclaration(decls, importSpecifier, moduleSpecifier, importType)

\* The tokens of an import statement.
Null == [type |-> "null"]

\* The template quote of a module text.
BQ == "backtick"

isQuote(tok) == tok \in {SQ, DQ, BQ}

\* \w+
isWord(tok) == tok \notin {SQ, DQ, BQ, "{", "}", "*", ",", "(", ")"}

\* A quote, a text without quotes, a quote, at position i.
isQuotedModule(stmt, i) ==
    /\ Len(stmt) >= i + 2
    /\ isQuote(stmt[i])
    /\ ~isQuote(stmt[i + 1])
    /\ isQuote(stmt[i + 2])

\* The position of the first closing brace (0 if none).
closingBrace(stmt) ==
    LET S == {i \in 1..Len(stmt) : stmt[i] = "}"}
    IN  IF S = {} THEN 0 ELSE Min(S)

parseImportStatement(stmt) ==
    IF stmt = <<>> \/ Head(stmt) # "import" THEN Null
    ELSE IF Len(stmt) >= 3 /\ isWord(stmt[2]) /\ stmt[3] = "from" /\ isQuotedModule(stmt, 4)
    THEN [specifier |-> <<stmt[2]>>, module |-> stmt[5], type |-> "default"]
    ELSE IF /\ Len(stmt) >= 5 /\ stmt[2] = "*" /\ stmt[3] = "as" /\ isWord(stmt[4])
            /\ stmt[5] = "from" /\ isQuotedModule(stmt, 6)
    THEN [specifier |-> <<stmt[4]>>, module |-> stmt[7], type |-> "namespace"]
    ELSE IF /\ Len(stmt) >= 2 /\ stmt[2] = "{" /\ closingBrace(stmt) > 3
            /\ Len(stmt) > closingBrace(stmt) /\ stmt[closingBrace(stmt) + 1] = "from"
            /\ isQuotedModule(stmt, closingBrace(stmt) + 2)
    THEN [specifier |-> SubSeq(stmt, 3, closingBrace(stmt) - 1),
          module |-> stmt[closingBrace(stmt) + 3], type |-> "named"]
    ELSE IF isQuotedModule(stmt, 2)
    THEN [specifier |-> <<>>, module |-> stmt[3], type |-> "full"]
    ELSE Null

ensureFullImportThrows(decls, fullImportStatement) ==
    LET parsed == parseImportStatement(fullImportStatement)
    IN  /\ parsed # Null
        /\ ensureImportThrows(decls, parsed.specifier, parsed.module, parsed.type)

ensureFullImport(decls, fullImportStatement) ==
    LET parsed == parseImportStatement(fullImportStatement)
    IN  IF parsed # Null
        THEN ensureImport(decls, parsed.specifier, parsed.module, parsed.type)
        ELSE decls

\* The position of the specifier that removeSpecifierFromImport removes (0 if none).
specifierToRemove(importDecl, specifier, importType) ==
    CASE importType = "default" ->
            IF hasImportSpecifier(importDecl, specifier, "default")
            THEN getDefaultImport(importDecl) ELSE 0
      [] importType = "namespace" ->
            IF hasImportSpecifier(importDecl, specifier, "namespace")
            THEN getNamespaceImport(importDecl) ELSE 0
      [] importType = "named" ->
            LET S == {i \in getNamedImports(importDecl) :
                        namedImportMatches(importDecl.specifiers[i], specifier)}
            IN  IF S = {} THEN 0 ELSE Min(S)
      [] OTHER -> 0

removeSpecifierFromImport(importDecl, specifier, importType) ==
    LET i == specifierToRemove(importDecl, specifier, importType)
    IN  IF i # 0 THEN [importDecl EXCEPT !.specifiers = RemoveAt(@, i)] ELSE importDecl

isImportEmpty(importDecl) ==
    /\ getDefaultImport(importDecl) = 0
    /\ getNamespaceImport(importDecl) = 0
    /\ Cardinality(getNamedImports(importDecl)) = 0

\* A variant that removes the declaration whenever it has no specifiers left.
removeImportWhenEmpty(decls, importSpecifier, moduleSpecifier, importType) ==
    LET d == findImportDeclaration(decls, moduleSpecifier)
    IN  IF d = 0 THEN decls
        ELSE IF importType = "full" THEN RemoveAt(decls, d)
        ELSE IF isImportEmpty(removeSpecifierFromImport(decls[d], importSpecifier, importType))
        THEN RemoveAt(decls, d)
        ELSE [decls EXCEPT ![d] =
                 removeSpecifierFromImport(@, importSpecifier, importType)]

\* A variant that, for the full kind, removes every declaration of the module.
removeImportEvery(decls, importSpecifier, moduleSpecifier, importType) ==
    IF importType = "full"
    THEN SelectSeq(decls, LAMBDA importDecl : importDecl.module # moduleSpecifier)
    ELSE removeImportWhenEmpty(decls, importSpecifier, moduleSpecifier, importType)

removeImport(decls, importSpecifier, moduleSpecifier, importType) ==
    LET importDeclaration == findImportDeclaration(decls, moduleSpecifier)
    IN  IF importDeclaration = 0 THEN decls
        ELSE IF importType = "full" THEN RemoveAt(decls, importDeclaration)
        ELSE LET removed ==
                     specifierToRemove(decls[importDeclaration], importSpecifier,
                                       importType) # 0
                 after == removeSpecifierFromImport(decls[importDeclaration],
                                                    importSpecifier, importType)
             IN  IF removed /\ isImportEmpty(after)
                 THEN RemoveAt(decls, importDeclaration)
                 ELSE [decls EXCEPT ![importDeclaration] = after]

getImportSpecifiers(importDecl) ==
    [i \in 1..Len(importDecl.specifiers) |->
        LET sp == importDecl.specifiers[i]
        IN  IF sp.alias # NoAlias
            THEN [name |-> sp.name, type |-> sp.type, alias |-> sp.alias]
            ELSE [name |-> sp.name, type |-> sp.type]]

getImports(decls) ==
    [i \in 1..Len(decls) |->
        [module |-> decls[i].module, specifiers |-> getImportSpecifiers(decls[i])]]

hasImport(decls, importSpecifier, moduleSpecifier, importType) ==
    LET importDeclaration == findImportDeclaration(decls, moduleSpecifier)
    IN  IF importDeclaration = 0 THEN FALSE
        ELSE IF importType = "full" THEN TRUE
        ELSE hasImportSpecifier(decls[importDeclaration], importSpecifier, importType)

(***************************************************************************)
(* A session of ImportTsMorphUtil.                                         *)
(***************************************************************************)
\* The files a session is constructed from:
\*   (empty)
\*   import { logger as log } from 'm';
\*   import { a } from 'n'; import A, { a } from 'm';
\*   import 'm';
\*   import * as ns from 'm';
\*   import * as ns from 'm'; import { a } from 'm';
InitialImports ==
    {<<>>,
     <<ImportDeclaration("m", <<ImportSpecifier("named", "logger", "log")>>)>>,
     <<ImportDeclaration("n", <<ImportSpecifier("named", "a", NoAlias)>>),
       ImportDeclaration("m", <<ImportSpecifier("default", "A", NoAlias),
                                ImportSpecifier("named", "a", NoAlias)>>)>>,
     <<ImportDeclaration("m", <<>>)>>,
     <<ImportDeclaration("m", <<ImportSpecifier("namespace", "ns", NoAlias)>>)>>,
     <<ImportDeclaration("m", <<ImportSpecifier("namespace", "ns", NoAlias)>>),
       ImportDeclaration("m", <<ImportSpecifier("named", "a", NoAlias)>>)>>}

\* The (specifier, type) pairs ensureImport and removeImport are called with.
ImportRequests ==
    {<<<<"A">>, "default">>, <<<<"B">>, "default">>, <<<<"ns">>, "namespace">>,
     <<<<"a">>, "named">>, <<<<"logger">>, "named">>, <<<<"log">>, "named">>,
     <<<<>>, "full">>}

\* The statements ensureFullImport is called with.
ImportStatements ==
    {<<"import", "{", "a", ",", "b", "}", "from", DQ, "m", DQ>>,
     <<"import", "B", "from", SQ, "m", SQ>>,
     <<"import", "*", "as", "ns", "from", SQ, "m", SQ>>,
     <<"import", SQ, "m", SQ>>,
     <<"invalid", "import", "statement">>}

ImportInit ==
    /\ imports \in InitialImports
    /\ pre = imports
    /\ op = [name |-> "constructor"]
    /\ calls = 0
    /\ configArray = <<>>
    /\ session = "live"
    /\ sourceFile = NoExport
    /\ tree = Absent
    /\ writes = <<>>

\* One call on the import session: the declarations become the result.
ImportCall(record, result) ==
    /\ calls < MaxCalls
    /\ calls' = calls + 1
    /\ imports' = result
    /\ op' = record
    /\ pre' = imports
    /\ UNCHANGED <<configArray, sessionVars>>

EnsureImport ==
    \E r \in ImportRequests :
        ImportCall([name |-> "ensureImport", importSpecifier |-> r[1],
                    moduleSpecifier |-> "m", importType |-> r[2],
                    threw |-> ensureImportThrows(imports, r[1], "m", r[2])],
                   ensureImport(imports, r[1], "m", r[2]))

EnsureFullImport ==
    \E stmt \in ImportStatements :
        ImportCall([name |-> "ensureFullImport", fullImportStatement |-> stmt,
                    threw |-> ensureFullImportThrows(imports, stmt)],
                   ensureFullImport(imports, stmt))

RemoveImport ==
    \E r \in ImportRequests :
        ImportCall([name |-> "removeImport", importSpecifier |-> r[1],
                    moduleSpecifier |-> "m", importType |-> r[2]],
                   removeImport(imports, r[1], "m", r[2]))

ImportNext ==
    \/ EnsureImport
    \/ EnsureFullImport
    \/ RemoveImport

ImportSpec == ImportInit /\ [][ImportNext]_vars

(***************************************************************************)
(* Vocabulary of the properties.                                           *)
(***************************************************************************)
Occurrences(seq, x) == Cardinality({i \in 1..Len(seq) : seq[i] = x})

IsPermutation(F, G) ==
    /\ Len(F) = Len(G)
    /\ \A i \in 1..Len(F) : Occurrences(F, F[i]) = Occurrences(G, F[i])

\* The element is an object entry that stores a files array.
HasFiles(element) ==
    /\ isObjectLiteral(element)
    /\ getProperty(element, <<"files">>) # 0
    /\ isArrayLiteral(element.props[getProperty(element, <<"files">>)].init)

FilesNodeOf(element) == element.props[getProperty(element, <<"files">>)].init

FilesOf(element) == stringElements(FilesNodeOf(element))

\* The entries whose files are the given patterns in some order.
EntriesWithFiles(arr, F) ==
    {i \in 1..Len(arr) : HasFiles(arr[i]) /\ IsPermutation(FilesOf(arr[i]), F)}

\* The rules of an entry as getConfigs() reports them.
DecodedRules(element) == Get(parseConfigObject(element), <<"rules">>)

\* The members of the rules object literal of an entry (none if it has no such).
RuleMembers(element) ==
    LET r == getProperty(element, <<"rules">>)
    IN  IF r # 0 /\ isObjectLiteral(element.props[r].init)
        THEN element.props[r].init.props ELSE <<>>

\* The properties of a rules object that carry the rule name, however quoted.
RuleProperties(members, ruleName) ==
    {i \in 1..Len(members) :
        isPropertyAssignment(members[i]) /\ cleanName(members[i].name) = ruleName}

\* The value decodes as the text of its expression.
isFallback(n) ==
    LET v == parsePropertyValue(n)
    IN  v.t = "string" /\ ~isStringLiteral(n)

UpsertFiles == Strings(Get(op.config, <<"files">>))

\* The last call was addOrUpdateConfig({files: F', rules: R, ...}) and an entry
\* whose files are a permutation of F' existed.
UpsertMerged ==
    /\ op.name = "addOrUpdateConfig"
    /\ HasKey(op.config, <<"files">>)
    /\ HasKey(op.config, <<"rules">>)
    /\ EntriesWithFiles(pre, UpsertFiles) # {}

UpsertTarget == Min(EntriesWithFiles(pre, UpsertFiles))

(***************************************************************************)
(* C1. Pattern-set order-independence of upsert: when an entry whose files *)
(* are a permutation of the given files exists, addOrUpdateConfig leaves   *)
(* the number of elements and of entries unchanged and applies the given   *)
(* rules to that entry: for every given rule the entry's rules hold a      *)
(* property of that name with the given value. In particular, after        *)
(* upsert({files:['a','b'], rules:{x:1}}) on the empty list,               *)
(* upsert({files:['b','a'], rules:{x:2}}) leaves exactly one entry, whose  *)
(* decoded rules.x is 2.                                                   *)
(***************************************************************************)
HoldsRule(element, ruleName, ruleConfig) ==
    \E i \in RuleProperties(RuleMembers(element), ruleName) :
        parsePropertyValue(RuleMembers(element)[i].init) = ruleConfig

C1_OrderIndependentUpsert ==
    /\ UpsertMerged =>
          LET R == Get(op.config, <<"rules">>)
          IN  /\ Len(configArray) = Len(pre)
              /\ Len(getConfigs(configArray)) = Len(getConfigs(pre))
              /\ \A k \in 1..Len(R.ents) :
                    ~startsWithDots(R.ents[k].key) =>
                        HoldsRule(configArray[UpsertTarget], R.ents[k].key, R.ents[k].val)
    /\ ( /\ op.name = "addOrUpdateConfig"
         /\ op.config = ruleConfigObject(<<PatB, PatA>>, <<"x">>, VNum(2))
         /\ pre = addNewConfigObject(<<>>, ruleConfigObject(<<PatA, PatB>>, <<"x">>, VNum(1))) )
          => /\ Len(getConfigs(configArray)) = 1
             /\ Get(getConfigs(configArray)[1], <<"rules">>)
                   = VObj(<<Entry(<<"x">>, VNum(2))>>)

\* upsert({files:['a','b'], rules:{x:1}}) then upsert({files:['b','a'], rules:{x:2}}):
\* one entry, whose rules.x is 2.
C1_Witness ==
    /\ UpsertMerged
    /\ op.config = ruleConfigObject(<<PatB, PatA>>, <<"x">>, VNum(2))
    /\ calls = 2
    /\ pre = addNewConfigObject(<<>>, ruleConfigObject(<<PatA, PatB>>, <<"x">>, VNum(1)))
    /\ Len(getConfigs(configArray)) = 1
    /\ Get(DecodedRules(configArray[1]), <<"x">>) = VNum(2)

(***************************************************************************)
(* C2. Uniqueness of the merge key: a call made on a list in which no two  *)
(* entries have equal files pattern sets leaves a list in which no two     *)
(* entries have equal files pattern sets.                                  *)
(***************************************************************************)
UniqueFiles(arr) ==
    \A i \in 1..Len(arr), j \in 1..Len(arr) :
        (i < j /\ HasFiles(arr[i]) /\ HasFiles(arr[j]))
            => ~IsPermutation(FilesOf(arr[i]), FilesOf(arr[j]))

C2_UniqueMergeKey == [][UniqueFiles(configArray) => UniqueFiles(configArray')]_vars

\* A copy into a new pattern set made a second entry with files.
C2_Witness ==
    /\ op.name = "copyConfigToPattern"
    /\ Cardinality({i \in 1..Len(pre) : HasFiles(pre[i])}) = 1
    /\ Cardinality({i \in 1..Len(configArray) : HasFiles(configArray[i])}) = 2
    /\ UniqueFiles(configArray)

(***************************************************************************)
(* C3. addOrUpdateConfig never reorders an existing files array: the       *)
(* stored files of the entry it merges into are the same sequence after    *)
(* the call as before.                                                     *)
(***************************************************************************)
C3_FilesOrderKept ==
    UpsertMerged =>
        /\ HasFiles(configArray[UpsertTarget])
        /\ FilesOf(configArray[UpsertTarget]) = FilesOf(pre[UpsertTarget])

(***************************************************************************)
(* C4. ensureRule postcondition: after ensureRule(P, R, V) an entry        *)
(* matching P exists and its decoded rules have R with value V.            *)
(***************************************************************************)
C4_EnsureRulePostcondition ==
    op.name = "ensureRule" =>
        /\ EntriesWithFiles(configArray, op.filePattern) # {}
        /\ getRule(configArray, op.filePattern, op.ruleName) = op.ruleConfig

(***************************************************************************)
(* C5. Idempotence of ensureRule: a second ensureRule(P, R, V) right after *)
(* the first leaves the decoded rules of P, the number of elements and the *)
(* number of rule properties of every entry as the first call left them.   *)
(***************************************************************************)
RulePropertyCounts(arr) ==
    [i \in 1..Len(arr) |-> IF isObjectLiteral(arr[i]) THEN Len(RuleMembers(arr[i])) ELSE 0]

C5_EnsureRuleIdempotent ==
    op.name = "ensureRule" =>
        LET twice == ensureRule(configArray, op.filePattern, op.ruleName, op.ruleConfig)
        IN  /\ getRulesForPattern(twice, op.filePattern)
                  = getRulesForPattern(configArray, op.filePattern)
            /\ getConfigs(twice) = getConfigs(configArray)
            /\ Len(twice) = Len(configArray)
            /\ RulePropertyCounts(twice) = RulePropertyCounts(configArray)

\* The first call added the rule to an entry that lacked it.
C5_Witness ==
    /\ op.name = "ensureRule"
    /\ Len(configArray) = Len(pre)
    /\ ~hasRule(pre, op.filePattern, op.ruleName)
    /\ getRule(configArray, op.filePattern, op.ruleName) = op.ruleConfig

(***************************************************************************)
(* C6. addRule(P, name, value) has exactly three outcomes: no entry        *)
(* matches P and one new entry {files: P, rules: {name: value}} is         *)
(* appended; the matching entry has no rules property and gets one that    *)
(* holds only name: value; otherwise name: value is appended after the     *)
(* existing members of its rules mapping, and getConfigs() reports the     *)
(* previous rules plus name -> value.                                      *)
(***************************************************************************)
AddedRule == PropertyAssignment(quoted(op.ruleName), valueToString(op.ruleConfig))

C6_AddRuleOutcomes ==
    op.name = "addRule" =>
        LET c == IF EntriesWithFiles(pre, op.filePattern) = {} THEN 0
                 ELSE Min(EntriesWithFiles(pre, op.filePattern))
        IN  IF c = 0
            THEN /\ Len(configArray) = Len(pre) + 1
                 /\ SubSeq(configArray, 1, Len(pre)) = pre
                 /\ parseConfigObject(configArray[Len(configArray)])
                       = ruleConfigObject(op.filePattern, op.ruleName, op.ruleConfig)
            ELSE IF getProperty(pre[c], <<"rules">>) = 0
            THEN configArray = [pre EXCEPT ![c].props =
                                   Append(@, RulesProperty(ObjectLiteral(<<AddedRule>>)))]
            ELSE /\ Len(configArray) = Len(pre)
                 /\ RuleMembers(configArray[c]) = Append(RuleMembers(pre[c]), AddedRule)
                 /\ DecodedRules(configArray[c])
                       = Put(IF Truthy(DecodedRules(pre[c])) THEN DecodedRules(pre[c])
                             ELSE VObj(<<>>),
                             op.ruleName, op.ruleConfig)

(***************************************************************************)
(* C7. Rule-by-rule merge of addOrUpdateConfig into an entry whose rules   *)
(* value is an object literal: a given rule name that the entry already    *)
(* has, however its key is quoted, gets the new value in place and the     *)
(* number of properties with that name is unchanged; a name not yet        *)
(* present is appended after the existing members; the other rules keep    *)
(* their value and position.                                               *)
(***************************************************************************)
C7_RuleByRuleMerge ==
    (UpsertMerged /\ Get(op.config, <<"rules">>).t = "object"
        /\ RuleMembers(pre[UpsertTarget]) # <<>>) =>
        LET R == Get(op.config, <<"rules">>)
            before == RuleMembers(pre[UpsertTarget])
            after == RuleMembers(configArray[UpsertTarget])
        IN  /\ Len(after) >= Len(before)
            /\ \A i \in 1..Len(before) :
                  \* positions and names are kept; the value changes only if named
                  /\ after[i].kind = before[i].kind
                  /\ isPropertyAssignment(before[i]) =>
                        /\ after[i].name = before[i].name
                        /\ ~HasKey(R, cleanName(before[i].name)) =>
                              after[i].init = before[i].init
            /\ \A k \in 1..Len(R.ents) :
                  (~startsWithDots(R.ents[k].key)
                      /\ RuleProperties(before, R.ents[k].key) # {}) =>
                      /\ Cardinality(RuleProperties(after, R.ents[k].key))
                            = Cardinality(RuleProperties(before, R.ents[k].key))
                      /\ \E i \in RuleProperties(before, R.ents[k].key) :
                            after[i].init = valueToString(R.ents[k].val)

(***************************************************************************)
(* C8. Round-trip fidelity for opaque content: a rule whose value is a     *)
(* fallback expression keeps its name and the exact text of its value      *)
(* through every call that does not name that rule: adding, updating or    *)
(* removing other rules of its entry (one by one, in bulk, by a rule-wise  *)
(* upsert or by merging another entry's rules), adding or removing         *)
(* spreads, setting language options, and every call that addresses        *)
(* another entry. Removing the entry, clearing its rules and copying a     *)
(* whole configuration over it are not such calls.                         *)
(***************************************************************************)
\* The last call writes to the entry found for these patterns.
AddressedFiles ==
    CASE op.name = "addOrUpdateConfig" ->
            IF Truthy(Get(op.config, <<"files">>)) THEN UpsertFiles ELSE <<>>
      [] op.name \in {"mergeRulesFromPattern", "copyConfigToPattern"} -> op.targetPattern
      [] OTHER -> op.filePattern

\* The last call names the rule.
NamesRule(ruleName) ==
    CASE op.name \in {"addRule", "updateRule", "removeRule", "ensureRule",
                      "removeRuleIfExists"} -> op.ruleName = ruleName
      [] op.name = "addMultipleRules" -> HasKey(op.rules, ruleName)
      [] op.name = "removeMultipleRules" ->
            \E k \in 1..Len(op.ruleNames) : op.ruleNames[k] = ruleName
      [] op.name = "addOrUpdateConfig" ->
            /\ HasKey(op.config, <<"rules">>)
            /\ Get(op.config, <<"rules">>).t = "object"
                  => HasKey(Get(op.config, <<"rules">>), ruleName)
      [] op.name = "mergeRulesFromPattern" ->
            hasRule(pre, op.sourcePattern, ruleName)
      [] op.name \in {"removeConfig", "clearAllRules", "copyConfigToPattern"} -> TRUE
      [] OTHER -> FALSE

\* Where the element at i is after the last call.
KeptAt(i) ==
    IF op.name = "removeConfig" /\ findConfigByFiles(pre, op.filePattern) \in 1..(i - 1)
    THEN i - 1 ELSE i

FallbackRules(element) ==
    {j \in 1..Len(RuleMembers(element)) :
        /\ isPropertyAssignment(RuleMembers(element)[j])
        /\ isFallback(RuleMembers(element)[j].init)}

KeepsRule(element, member) ==
    /\ isObjectLiteral(element)
    /\ \E j \in 1..Len(RuleMembers(element)) :
          /\ isPropertyAssignment(RuleMembers(element)[j])
          /\ RuleMembers(element)[j].name = member.name
          /\ getText(RuleMembers(element)[j].init) = getText(member.init)

C8_OpaqueRuleTextKept ==
    op.name # "constructor" =>
        \A i \in 1..Len(pre) :
            isObjectLiteral(pre[i]) =>
                \A j \in FallbackRules(pre[i]) :
                    LET member == RuleMembers(pre[i])[j]
                    IN  (~matchesFiles(pre[i], AddressedFiles)
                            \/ ~NamesRule(cleanName(member.name)))
                        => /\ KeptAt(i) \in 1..Len(configArray)
                           /\ KeepsRule(configArray[KeptAt(i)], member)

\* Another rule was added to the entry that holds the fallback-valued rule.
C8_Witness ==
    /\ op.name = "addRule"
    /\ \E i \in 1..Len(pre) :
          /\ matchesFiles(pre[i], op.filePattern)
          /\ FallbackRules(pre[i]) # {}
          /\ Len(RuleMembers(configArray[i])) = Len(RuleMembers(pre[i])) + 1
          /\ \A j \in FallbackRules(pre[i]) :
                getText(RuleMembers(configArray[i])[j].init) = <<"fn()">>

(***************************************************************************)
(* C9. Fallback values encode as their stored text verbatim: a rule value  *)
(* decoded as fallback text and written into a new entry by                *)
(* copyConfigToPattern is emitted as exactly the original expression text. *)
(***************************************************************************)
C9_FallbackVerbatim ==
    (op.name = "copyConfigToPattern"
        /\ EntriesWithFiles(pre, op.sourcePattern) # {}
        /\ EntriesWithFiles(pre, op.targetPattern) = {}) =>
        LET source == RuleMembers(pre[Min(EntriesWithFiles(pre, op.sourcePattern))])
            copy == RuleMembers(configArray[Len(configArray)])
        IN  \A i \in 1..Len(source) :
                (isPropertyAssignment(source[i]) /\ isFallback(source[i].init)) =>
                    \E j \in RuleProperties(copy, cleanName(source[i].name)) :
                        getText(copy[j].init) = getText(source[i].init)

(***************************************************************************)
(* C10. Spread keys of a config object are written as spread members: when *)
(* no entry matches its files, the entry appended for a config with a      *)
(* top-level key '...<expr>' and a rules key '...<expr2>' holds the bare   *)
(* member ...<expr> at the top level and the bare member ...<expr2> inside *)
(* rules, next to the properties files and rules.                          *)
(***************************************************************************)
SpreadKeys(obj) ==
    {obj.ents[i].key : i \in {j \in 1..Len(obj.ents) : startsWithDots(obj.ents[j].key)}}

HasSpreadMember(members, key) ==
    \E i \in 1..Len(members) :
        isSpreadAssignment(members[i]) /\ spreadKey(members[i]) = key

C10_SpreadKeysWritten ==
    (op.name = "addOrUpdateConfig"
        /\ SpreadKeys(op.config) # {}
        /\ HasKey(op.config, <<"files">>)
        /\ EntriesWithFiles(pre, UpsertFiles) = {}) =>
        LET new == configArray[Len(configArray)]
        IN  /\ Len(configArray) = Len(pre) + 1
            /\ isObjectLiteral(new)
            /\ HasFiles(new)
            /\ \A key \in SpreadKeys(op.config) : HasSpreadMember(new.props, key)
            /\ \A key \in SpreadKeys(Get(op.config, <<"rules">>)) :
                  HasSpreadMember(RuleMembers(new), key)

(***************************************************************************)
(* C11. Spread operations fail instead of guessing: each of the four       *)
(* raises an error exactly when no entry matches the patterns or, for the  *)
(* two rules variants, the matching entry has no rules property or a rules *)
(* value that is not an object literal; a call that raised left the tree   *)
(* and the decoded entries unchanged. Removing a spread that the existing  *)
(* target does not hold raises nothing and changes nothing.                *)
(***************************************************************************)
SpreadOperations ==
    {"addSpreadToRules", "removeSpreadFromRules", "addSpreadToConfig",
     "removeSpreadFromConfig"}

\* The entry the call addresses lacks an object-literal rules value.
NoRulesObject(element) ==
    \/ getProperty(element, <<"rules">>) = 0
    \/ ~isObjectLiteral(element.props[getProperty(element, <<"rules">>)].init)

SpreadMustFail ==
    \/ EntriesWithFiles(pre, op.filePattern) = {}
    \/ /\ op.name \in {"addSpreadToRules", "removeSpreadFromRules"}
       /\ NoRulesObject(pre[Min(EntriesWithFiles(pre, op.filePattern))])

\* The members a removal looks through.
SpreadTargetMembers ==
    LET element == pre[Min(EntriesWithFiles(pre, op.filePattern))]
    IN  IF op.name = "removeSpreadFromRules" THEN RuleMembers(element) ELSE element.props

C11_SpreadOperationsFail ==
    op.name \in SpreadOperations =>
        /\ op.threw <=> SpreadMustFail
        /\ op.threw => (configArray = pre /\ getConfigs(configArray) = getConfigs(pre))
        /\ (/\ op.name \in {"removeSpreadFromRules", "removeSpreadFromConfig"}
            /\ ~SpreadMustFail
            /\ ~HasSpreadMember(SpreadTargetMembers, <<DOTS>> \o op.spreadExpression))
              => (~op.threw /\ configArray = pre)

\* addSpreadToRules raised on an entry whose rules value is an identifier.
C11_Witness ==
    /\ op.name = "addSpreadToRules"
    /\ op.threw
    /\ EntriesWithFiles(pre, op.filePattern) # {}
    /\ getProperty(pre[Min(EntriesWithFiles(pre, op.filePattern))], <<"rules">>) # 0
    /\ configArray = pre

(***************************************************************************)
(* C12. No-op outcomes: removeConfig, removeRule, removeRuleIfExists,      *)
(* removeMultipleRules and clearAllRules called with patterns that match   *)
(* no entry, and removeRule called for a rule that the matching entry does *)
(* not hold, leave the tree unchanged; afterwards hasRule is false and     *)
(* getRule and getRulesForPattern (for unmatched patterns) return          *)
(* undefined.                                                              *)
(***************************************************************************)
RemoveOperations ==
    {"removeConfig", "removeRule", "removeRuleIfExists", "removeMultipleRules",
     "clearAllRules"}

\* The rule names the last call was given.
NamedRules ==
    CASE op.name \in {"removeRule", "removeRuleIfExists"} -> {op.ruleName}
      [] op.name = "removeMultipleRules" ->
            {op.ruleNames[k] : k \in 1..Len(op.ruleNames)}
      [] OTHER -> RuleNames

NothingMatched ==
    /\ op.name \in RemoveOperations
    /\ EntriesWithFiles(pre, op.filePattern) = {}

RuleWasAbsent ==
    /\ op.name \in {"removeRule", "removeRuleIfExists"}
    /\ EntriesWithFiles(pre, op.filePattern) # {}
    /\ RuleProperties(RuleMembers(pre[Min(EntriesWithFiles(pre, op.filePattern))]),
                      op.ruleName) = {}

HasDefaultExportOfArray(text) ==
    /\ text.statement = "ExportDefault"
    /\ isArrayLiteral(text.expr)

C13_ConstructionFailsFast ==
    op.name = "constructor" =>
        /\ op.threw <=> ~HasDefaultExportOfArray(readFile(tree))
        /\ op.threw => (session = "failed" /\ writes = <<>>)
        /\ ~op.threw => session = "live"

(***************************************************************************)
(* C14. Persistence happens only at save: a step that is not a save makes  *)
(* no write and leaves the workspace file as it was; a save makes exactly  *)
(* one write, to the session's path, of the content getContent() returns   *)
(* at that moment, and the workspace file then holds that content.         *)
(***************************************************************************)
C14_PersistenceOnlyAtSave ==
    [][IF op'.name = "save"
       THEN /\ Len(writes') = Len(writes) + 1
            /\ writes'[Len(writes')] = [path |-> filePath,
                                        content |-> getContent(sourceFile, configArray)]
            /\ tree' = getContent(sourceFile, configArray)
            /\ SubSeq(writes', 1, Len(writes)) = writes
       ELSE writes' = writes /\ tree' = tree]_vars

\* An edit changed the array and the save that followed wrote the changed text.
C14_Witness ==
    /\ op.name = "save"
    /\ Len(writes) = 1
    /\ ArrayLiteral(configArray) # sourceFile.expr
    /\ writes[1].content.expr = ArrayLiteral(configArray)
    /\ tree = writes[1].content

(***************************************************************************)
(* The codec: a value is encoded by valueToString and the text is decoded  *)
(* by parsePropertyValue.                                                  *)
(***************************************************************************)
MaxStringLen == 2   \* characters of a string, a key or a module path

\* The characters of the strings: a letter, the single quote, the backslash.
Chars == {"a", SQ, BS}

CodecStrings == UNION {[1..n -> Chars] : n \in 0..MaxStringLen}

Atoms ==
    {VStr(str) : str \in CodecStrings}
        \cup {VNum(0), VNum(1), VNum(0 - 1), VBool(TRUE), VBool(FALSE), VNull, VUndefined}

DynamicImports ==
    {VObj(<<Entry(<<"__dynamicImport">>, VStr(modulePath))>>) : modulePath \in CodecStrings}

Mappings ==
    {VObj(<<>>)}
        \cup {VObj(<<Entry(key, val)>>) : key \in CodecStrings, val \in Atoms}
        \cup {VObj(<<Entry(<<"a">>, val), Entry(<<"b">>, VArr(<<val>>))>>) : val \in Atoms}

Arrays ==
    {VArr(<<>>)}
        \cup {VArr(<<x>>) : x \in Atoms \cup DynamicImports}
        \cup {VArr(<<x, VObj(<<Entry(<<"a">>, x)>>)>>) : x \in Atoms}

CodecValues == Atoms \cup DynamicImports \cup Mappings \cup Arrays

CodecInit ==
    /\ op \in {[name |-> "value", value |-> v] : v \in CodecValues}
    /\ pre = <<>>
    /\ calls = 0
    /\ configArray = <<>>
    /\ imports = <<>>
    /\ session = "live"
    /\ sourceFile = NoExport
    /\ tree = Absent
    /\ writes = <<>>

\* valueToString(value): the text, kept as the node it parses to.
ValueToString ==
    /\ op.name = "value"
    /\ op' = [name |-> "valueToString", value |-> op.value,
              node |-> valueToString(op.value)]
    /\ calls' = calls + 1
    /\ UNCHANGED <<configArray, pre, sessionVars, imports>>

\* parsePropertyValue(node)
ParsePropertyValue ==
    /\ op.name = "valueToString"
    /\ op' = [name |-> "parsePropertyValue", value |-> op.value, node |-> op.node,
              decoded |-> parsePropertyValue(op.node)]
    /\ calls' = calls + 1
    /\ UNCHANGED <<configArray, pre, sessionVars, imports>>

CodecNext ==
    \/ ValueToString
    \/ ParsePropertyValue

CodecSpec == CodecInit /\ [][CodecNext]_vars

(***************************************************************************)
(* Decoding an expression of the source: parsePropertyValue applied to     *)
(* calls, awaited or not, of the import form and of other callees.         *)
(***************************************************************************)
MaxArgs == 2   \* arguments of a call

\* 'm', '', parserName, { }
CallArguments ==
    {StringLiteral(SQ, <<"m">>), StringLiteral(SQ, <<>>), Identifier(<<"parserName">>),
     ObjectLiteral(<<>>)}

\* import (the keyword and the identifier), require
Callees == {Keyword("ImportKeyword"), Identifier(<<"import">>), Identifier(<<"require">>)}

Calls ==
    {CallExpression(callee, args) :
        callee \in Callees, args \in UNION {[1..n -> CallArguments] : n \in 0..MaxArgs}}

Expressions ==
    Calls \cup {AwaitExpression(call) : call \in Calls}
          \cup {AwaitExpression(Identifier(<<"parserName">>))}

DecodeInit ==
    /\ op \in {[name |-> "expression", node |-> e] : e \in Expressions}
    /\ pre = <<>>
    /\ calls = 0
    /\ configArray = <<>>
    /\ imports = <<>>
    /\ session = "live"
    /\ sourceFile = NoExport
    /\ tree = Absent
    /\ writes = <<>>

\* parsePropertyValue(valueNode) on an expression of the source
ParseExpression ==
    /\ op.name = "expression"
    /\ op' = [name |-> "parseExpression", node |-> op.node,
              decoded |-> parsePropertyValue(op.node)]
    /\ calls' = calls + 1
    /\ UNCHANGED <<configArray, pre, sessionVars, imports>>

DecodeNext == ParseExpression

DecodeSpec == DecodeInit /\ [][DecodeNext]_vars

(***************************************************************************)
(* C15. After any sequence of ensureImport, ensureFullImport and           *)
(* removeImport calls every import declaration holds at most one default   *)
(* specifier and at most one namespace specifier, and an ensureImport for  *)
(* a default (a namespace) on a declaration that already has a default (a  *)
(* namespace) changes nothing: ensureImport('A','m','default') followed by *)
(* ensureImport('B','m','default') leaves the single default A.            *)
(***************************************************************************)
SpecifiersOfType(importDecl, type) ==
    {i \in 1..Len(importDecl.specifiers) : importDecl.specifiers[i].type = type}

SingletonSpecifiers(decls) ==
    \A d \in 1..Len(decls) :
        /\ Cardinality(SpecifiersOfType(decls[d], "default")) <= 1
        /\ Cardinality(SpecifiersOfType(decls[d], "namespace")) <= 1

SlotTaken(decls, moduleSpecifier, type) ==
    /\ findImportDeclaration(decls, moduleSpecifier) # 0
    /\ SpecifiersOfType(decls[findImportDeclaration(decls, moduleSpecifier)], type) # {}

C15_SpecifierSingleton ==
    /\ SingletonSpecifiers(imports)
    /\ (/\ op.name = "ensureImport"
        /\ op.importType \in {"default", "namespace"}
        /\ SlotTaken(pre, op.moduleSpecifier, op.importType))
       => (imports = pre /\ ~op.threw)

C15_Witness ==
    /\ calls = 2
    /\ op.name = "ensureImport"
    /\ op.importType = "default"
    /\ op.importSpecifier = <<"B">>
    /\ pre = <<ImportDeclaration("m", <<ImportSpecifier("default", "A", NoAlias)>>)>>
    /\ imports = pre

(***************************************************************************)
(* C16. For a kind among named, default and namespace, removeImport(n, m,  *)
(* kind) that removes a specifier and leaves the declaration with no       *)
(* default, no namespace and no named specifier deletes the declaration;   *)
(* one that removes a specifier and leaves others keeps the declaration;   *)
(* one that matches no specifier keeps the declaration unchanged, even     *)
(* when the declaration is a side-effect-only one.                         *)
(***************************************************************************)
MatchingSpecifiers(importDecl, specifier, type) ==
    {i \in SpecifiersOfType(importDecl, type) :
        \/ <<importDecl.specifiers[i].name>> = specifier
        \/ /\ type = "named"
           /\ importDecl.specifiers[i].alias # NoAlias
           /\ <<importDecl.specifiers[i].alias>> = specifier}

SpecifierRemoval ==
    /\ op.name = "removeImport"
    /\ op.importType \in {"named", "default", "namespace"}
    /\ findImportDeclaration(pre, op.moduleSpecifier) # 0

TargetDeclaration == findImportDeclaration(pre, op.moduleSpecifier)

RemovalMatched ==
    MatchingSpecifiers(pre[TargetDeclaration], op.importSpecifier, op.importType) # {}

C16_EmptyingDeletesDeclaration ==
    SpecifierRemoval =>
        IF ~RemovalMatched
        THEN imports = pre
        ELSE IF Len(pre[TargetDeclaration].specifiers) = 1
        THEN imports = RemoveAt(pre, TargetDeclaration)
        ELSE /\ Len(imports) = Len(pre)
             /\ \A d \in 1..Len(pre) : d # TargetDeclaration => imports[d] = pre[d]
             /\ imports[TargetDeclaration].module = op.moduleSpecifier
             /\ Len(imports[TargetDeclaration].specifiers)
                    = Len(pre[TargetDeclaration].specifiers) - 1
             /\ \E i \in MatchingSpecifiers(pre[TargetDeclaration], op.importSpecifier,
                                            op.importType) :
                    imports[TargetDeclaration].specifiers
                        = RemoveAt(pre[TargetDeclaration].specifiers, i)

C16_Witness ==
    /\ SpecifierRemoval
    /\ RemovalMatched
    /\ op.importType = "named"
    /\ pre = <<ImportDeclaration("m", <<ImportSpecifier("named", "a", NoAlias)>>)>>
    /\ imports = <<>>

C16_SideEffectOnlyKept ==
    /\ SpecifierRemoval
    /\ pre = <<ImportDeclaration("m", <<>>)>>
    /\ imports = pre

(***************************************************************************)
(* C17. For a named specifier written { orig as alias } in the declaration *)
(* of module m, hasImport(orig, m, 'named') and hasImport(alias, m,        *)
(* 'named') are both true, ensureImport with either name changes nothing,  *)
(* and removeImport with either name removes that specifier, deleting the  *)
(* declaration if it was the only one.                                     *)
(***************************************************************************)
\* The named specifiers with an alias in the first declaration of the module.
AliasedSpecifiers(decls, moduleSpecifier) ==
    IF findImportDeclaration(decls, moduleSpecifier) = 0 THEN {}
    ELSE {i \in SpecifiersOfType(decls[findImportDeclaration(decls, moduleSpecifier)],
                                 "named") :
            decls[findImportDeclaration(decls, moduleSpecifier)].specifiers[i].alias
                # NoAlias}

\* The call named the specifier i of the declaration by its name or by its alias.
CalledByEitherName(i) ==
    \/ op.importSpecifier = <<pre[TargetDeclaration].specifiers[i].name>>
    \/ op.importSpecifier = <<pre[TargetDeclaration].specifiers[i].alias>>

C17_AliasAwareLookup ==
    /\ \A i \in AliasedSpecifiers(imports, "m") :
          LET sp == imports[findImportDeclaration(imports, "m")].specifiers[i]
          IN  /\ hasImport(imports, <<sp.name>>, "m", "named")
              /\ hasImport(imports, <<sp.alias>>, "m", "named")
    /\ (op.name \in {"ensureImport", "removeImport"} /\ op.importType = "named")
       => \A i \in AliasedSpecifiers(pre, op.moduleSpecifier) :
            CalledByEitherName(i) =>
                IF op.name = "ensureImport"
                THEN imports = pre /\ ~op.threw
                ELSE IF Len(pre[TargetDeclaration].specifiers) = 1
                THEN imports = RemoveAt(pre, TargetDeclaration)
                ELSE imports = [pre EXCEPT ![TargetDeclaration].specifiers =
                                   RemoveAt(@, i)]

C17_Witness ==
    /\ op.name = "removeImport"
    /\ op.importType = "named"
    /\ op.importSpecifier = <<"log">>
    /\ pre = <<ImportDeclaration("m", <<ImportSpecifier("named", "logger", "log")>>)>>
    /\ imports = <<>>

(***************************************************************************)
(* C18. ensureImport is idempotent: in every reachable import state and    *)
(* for every name, module and kind (named, default, namespace, full), a    *)
(* second ensureImport with the same arguments leaves getImports() and the *)
(* content as the first call left them; and when the requested specifier   *)
(* (for full: any declaration of the module) already exists, the call      *)
(* changes nothing and adds no declaration.                                *)
(***************************************************************************)
EnsuredAgain ==
    ensureImport(imports, op.importSpecifier, op.moduleSpecifier, op.importType)

AlreadyImported ==
    /\ findImportDeclaration(pre, op.moduleSpecifier) # 0
    /\ \/ op.importType = "full"
       \/ MatchingSpecifiers(pre[TargetDeclaration], op.importSpecifier,
                             op.importType) # {}

C18_EnsureImportIdempotent ==
    op.name = "ensureImport" =>
        /\ EnsuredAgain = imports
        /\ getImports(EnsuredAgain) = getImports(imports)
        /\ ensureImportThrows(imports, op.importSpecifier, op.moduleSpecifier,
                              op.importType) = op.threw
        /\ AlreadyImported => (imports = pre /\ ~op.threw)

C18_Witness ==
    /\ calls = 2
    /\ op.name = "ensureImport"
    /\ op.importType = "named"
    /\ op.importSpecifier = <<"a">>
    /\ AlreadyImported
    /\ pre = <<ImportDeclaration("m", <<ImportSpecifier("named", "a", NoAlias)>>)>>
    /\ imports = pre

(***************************************************************************)
(* C19. ensureFullImport('import { a, b } from "m"') has the effect of     *)
(* ensureImport('a','m','named') followed by ensureImport('b','m',         *)
(* 'named'): afterwards the declaration of m lists a exactly once and b    *)
(* exactly once, whether or not a or b was imported from m before.         *)
(***************************************************************************)
NamedStatement == <<"import", "{", "a", ",", "b", "}", "from", DQ, "m", DQ>>

\* How many named specifiers of the first declaration of m import the name.
TimesListed(decls, name) ==
    IF findImportDeclaration(decls, "m") = 0 THEN 0
    ELSE Cardinality({i \in SpecifiersOfType(decls[findImportDeclaration(decls, "m")],
                                             "named") :
            decls[findImportDeclaration(decls, "m")].specifiers[i].name = name})

OneByOne ==
    ensureImport(ensureImport(pre, <<"a">>, "m", "named"), <<"b">>, "m", "named")

C19_BraceNamesIndependent ==
    (op.name = "ensureFullImport" /\ op.fullImportStatement = NamedStatement) =>
        /\ imports = OneByOne
        /\ ~op.threw => (TimesListed(imports, "a") = 1 /\ TimesListed(imports, "b") = 1)

\* The call made on a file that imports neither a nor b from m.
C19_NeitherImportedBefore ==
    (/\ op.name = "ensureFullImport"
     /\ op.fullImportStatement = NamedStatement
     /\ TimesListed(pre, "a") = 0
     /\ TimesListed(pre, "b") = 0)
    => (imports = OneByOne)

(***************************************************************************)
(* C20. For every value built from strings, numbers, booleans, null,       *)
(* undefined, arrays, string-keyed mappings and dynamic imports, decoding  *)
(* the text that valueToString gives yields the value again; this for all  *)
(* strings, keys and module paths over an alphabet with the single quote   *)
(* and the backslash, the empty module path included.                      *)
(***************************************************************************)
C20_EncodeDecodeRoundTrip ==
    op.name = "parsePropertyValue" => op.decoded = op.value

\* The strings, keys and module paths of a value.
RECURSIVE TextsOf(_)
TextsOf(v) ==
    CASE v.t = "string" -> {v.s}
      [] v.t = "array" -> UNION {TextsOf(v.els[i]) : i \in 1..Len(v.els)}
      [] v.t = "object" ->
            UNION {{v.ents[i].key} \cup TextsOf(v.ents[i].val) : i \in 1..Len(v.ents)}
      [] OTHER -> {}

RECURSIVE NumbersOf(_)
NumbersOf(v) ==
    CASE v.t = "number" -> {v.n}
      [] v.t = "array" -> UNION {NumbersOf(v.els[i]) : i \in 1..Len(v.els)}
      [] v.t = "object" -> UNION {NumbersOf(v.ents[i].val) : i \in 1..Len(v.ents)}
      [] OTHER -> {}

\* No text of the value holds a quote or a backslash, and no number is negative.
PlainValue(v) ==
    /\ \A text \in TextsOf(v) : \A i \in 1..Len(text) : text[i] \notin {SQ, BS}
    /\ \A n \in NumbersOf(v) : n >= 0

\* The round trip of the values without quote, backslash and negative number.
C20_PlainRoundTrip ==
    (op.name = "parsePropertyValue" /\ PlainValue(op.value)) => op.decoded = op.value

\* The round trip of a dynamic import of the empty module path.
C20_EmptyModulePath ==
    /\ op.name = "parsePropertyValue"
    /\ op.value = VObj(<<Entry(<<"__dynamicImport">>, VStr(<<>>))>>)
    /\ op.decoded = op.value

(***************************************************************************)
(* C21. removeImport(_, m, 'full') deletes the first declaration, in file  *)
(* order, whose module is m, whatever specifiers it holds, leaves every    *)
(* other declaration unchanged, and does nothing when no declaration of m  *)
(* exists.                                                                 *)
(***************************************************************************)
DeclarationsOf(decls, moduleSpecifier) ==
    {d \in 1..Len(decls) : decls[d].module = moduleSpecifier}

C21_FullRemovesDeclaration ==
    (op.name = "removeImport" /\ op.importType = "full") =>
        IF DeclarationsOf(pre, op.moduleSpecifier) = {}
        THEN imports = pre
        ELSE \E d \in DeclarationsOf(pre, op.moduleSpecifier) :
                /\ \A e \in DeclarationsOf(pre, op.moduleSpecifier) : d <= e
                /\ Len(imports) = Len(pre) - 1
                /\ \A j \in 1..Len(imports) :
                      imports[j] = IF j < d THEN pre[j] ELSE pre[j + 1]

C21_Witness ==
    /\ op.name = "removeImport"
    /\ op.importType = "full"
    /\ pre = <<ImportDeclaration("m", <<ImportSpecifier("namespace", "ns", NoAlias)>>),
               ImportDeclaration("m", <<ImportSpecifier("named", "a", NoAlias)>>)>>
    /\ imports = <<ImportDeclaration("m", <<ImportSpecifier("named", "a", NoAlias)>>)>>

\* The call made on a file without a declaration of the module.
C21_NoDeclaration ==
    /\ op.name = "removeImport"
    /\ op.importType = "full"
    /\ DeclarationsOf(pre, op.moduleSpecifier) = {}
    /\ imports = pre

(***************************************************************************)
(* C22. addRule appends without deduplication: on an entry whose rules     *)
(* object already has a property named R, addRule(P, R, V2) adds a second  *)
(* property named R after the existing members and leaves the first one    *)
(* and its value in place; addMultipleRules and mergeRulesFromPattern      *)
(* append each of their rules in the same way.                             *)
(***************************************************************************)
AddOperations == {"addRule", "addMultipleRules", "mergeRulesFromPattern"}

\* The entry an add operation addresses (0 if none).
AddTarget ==
    IF EntriesWithFiles(pre, AddressedFiles) = {} THEN 0
    ELSE Min(EntriesWithFiles(pre, AddressedFiles))

HasRulesObject(element) ==
    /\ getProperty(element, <<"rules">>) # 0
    /\ isObjectLiteral(element.props[getProperty(element, <<"rules">>)].init)

\* The rules the last add operation was given, in order.
RulesToAdd ==
    CASE op.name = "addRule" -> <<Entry(op.ruleName, op.ruleConfig)>>
      [] op.name = "addMultipleRules" -> op.rules.ents
      [] op.name = "mergeRulesFromPattern" ->
            IF Truthy(getRulesForPattern(pre, op.sourcePattern))
            THEN getRulesForPattern(pre, op.sourcePattern).ents ELSE <<>>

AppendedMembers ==
    [k \in 1..Len(RulesToAdd) |->
        PropertyAssignment(quoted(RulesToAdd[k].key), valueToString(RulesToAdd[k].val))]

C22_AddRuleAppends ==
    (op.name \in AddOperations /\ AddTarget # 0 /\ HasRulesObject(pre[AddTarget])) =>
        /\ Len(configArray) = Len(pre)
        /\ RuleMembers(configArray[AddTarget])
              = RuleMembers(pre[AddTarget]) \o AppendedMembers
        /\ \A k \in 1..Len(RulesToAdd) :
              LET R == RulesToAdd[k].key
              IN  RuleProperties(RuleMembers(pre[AddTarget]), R) # {} =>
                    /\ Cardinality(RuleProperties(RuleMembers(configArray[AddTarget]), R))
                          > Cardinality(RuleProperties(RuleMembers(pre[AddTarget]), R))
                    /\ Min(RuleProperties(RuleMembers(configArray[AddTarget]), R))
                          = Min(RuleProperties(RuleMembers(pre[AddTarget]), R))

\* addRule named a rule the entry already had: the rules object names it twice.
C22_Witness ==
    /\ op.name = "addRule"
    /\ AddTarget # 0
    /\ HasRulesObject(pre[AddTarget])
    /\ Cardinality(RuleProperties(RuleMembers(pre[AddTarget]), op.ruleName)) = 1
    /\ Cardinality(RuleProperties(RuleMembers(configArray[AddTarget]), op.ruleName)) = 2

\* mergeRulesFromPattern appended a rule its target already had.
C22_MergeDuplicates ==
    /\ op.name = "mergeRulesFromPattern"
    /\ AddTarget # 0
    /\ \E R \in RuleNames :
          /\ Cardinality(RuleProperties(RuleMembers(pre[AddTarget]), R)) = 1
          /\ Cardinality(RuleProperties(RuleMembers(configArray[AddTarget]), R)) = 2

(***************************************************************************)
(* C23. An expression decodes to a dynamic import of a module path if and  *)
(* only if it is an awaited call whose callee is the import form and which *)
(* has exactly one argument, a string literal; an awaited import call with *)
(* no argument, with a first argument that is no string literal, or with   *)
(* more than one argument decodes to the text of the whole expression.     *)
(***************************************************************************)
IsAwaitedImportCall(n) ==
    /\ n.kind = "AwaitExpression"
    /\ n.expr.kind = "CallExpression"
    /\ \/ n.expr.callee.kind = "ImportKeyword"
       \/ n.expr.callee = Identifier(<<"import">>)

IsDynamicImport(v) ==
    /\ v.t = "object"
    /\ Len(v.ents) = 1
    /\ v.ents[1].key = <<"__dynamicImport">>
    /\ v.ents[1].val.t = "string"

OneStringArgument(call) ==
    Len(call.args) = 1 /\ call.args[1].kind = "StringLiteral"

FirstArgumentIsString(call) ==
    Len(call.args) >= 1 /\ call.args[1].kind = "StringLiteral"

C23_DynamicImportRecognition ==
    op.name = "parseExpression" =>
        /\ IsDynamicImport(op.decoded)
              <=> (IsAwaitedImportCall(op.node) /\ OneStringArgument(op.node.expr))
        /\ (IsAwaitedImportCall(op.node) /\ ~OneStringArgument(op.node.expr))
              => op.decoded = VStr(getText(op.node))

\* What decides is the first argument, whatever follows it.
C23_FirstArgumentDecides ==
    op.name = "parseExpression" =>
        /\ IsDynamicImport(op.decoded)
              <=> (IsAwaitedImportCall(op.node) /\ FirstArgumentIsString(op.node.expr))
        /\ IsDynamicImport(op.decoded)
              => op.decoded.ents[1].val.s = getLiteralValue(op.node.expr.args[1])
        /\ ~IsDynamicImport(op.decoded) => op.decoded = VStr(getText(op.node))

(***************************************************************************)
(* C24. addSpreadToRules and addSpreadToConfig append the new spread       *)
(* member after all members of the rules object, or of the entry, which    *)
(* keep their order; removeSpreadFromRules and removeSpreadFromConfig      *)
(* delete only the first spread member whose expression text equals the    *)
(* given text and leave every other member, later spreads of the same text *)
(* included, in place.                                                     *)
(***************************************************************************)
SpreadTarget == Min(EntriesWithFiles(pre, op.filePattern))

OnRules == op.name \in {"addSpreadToRules", "removeSpreadFromRules"}

\* The members the spread operation works on, in the given array.
SpreadMembers(arr) ==
    IF OnRules THEN RuleMembers(arr[SpreadTarget]) ELSE arr[SpreadTarget].props

\* The array with those members replaced.
WithSpreadMembers(arr, members) ==
    IF OnRules
    THEN [arr EXCEPT ![SpreadTarget].props[getProperty(arr[SpreadTarget], <<"rules">>)]
                          .init.props = members]
    ELSE [arr EXCEPT ![SpreadTarget].props = members]

\* The spread members with the given expression text.
SpreadsOf(members, text) ==
    {i \in 1..Len(members) : isSpreadAssignment(members[i]) /\ members[i].expr = text}

FirstMatch == Min(EntriesWithFiles(pre, AddressedFiles))

LaterMatches == EntriesWithFiles(pre, AddressedFiles) \ {FirstMatch}

EntryOperations ==
    {"addOrUpdateConfig", "addRule", "updateRule", "ensureRule", "removeRule",
     "removeRuleIfExists", "addMultipleRules", "removeMultipleRules", "clearAllRules"}

C25_RemoveConfigFirstMatch ==
    /\ (op.name = "removeConfig" /\ EntriesWithFiles(pre, op.filePattern) # {}) =>
          /\ Len(configArray) = Len(pre) - 1
          /\ Len(getConfigs(configArray)) = Len(getConfigs(pre)) - 1
          /\ \A i \in 1..Len(configArray) :
                configArray[i] = IF i < FirstMatch THEN pre[i] ELSE pre[i + 1]
          /\ \A i \in LaterMatches : configArray[i - 1] = pre[i]
    /\ (op.name \in EntryOperations /\ EntriesWithFiles(pre, AddressedFiles) # {}) =>
          /\ Len(configArray) = Len(pre)
          /\ \A i \in LaterMatches : configArray[i] = pre[i]

\* removeConfig on a list with two entries of the pattern set: the later one remains.
C25_Witness ==
    /\ op.name = "removeConfig"
    /\ Cardinality(EntriesWithFiles(pre, op.filePattern)) = 2
    /\ Cardinality(EntriesWithFiles(configArray, op.filePattern)) = 1
    /\ \E i \in LaterMatches : configArray[i - 1] = pre[i]

(***************************************************************************)
(* C26. An edit is local to one entry: addOrUpdateConfig, addRule,         *)
(* updateRule, ensureRule, removeRule, clearAllRules, setLanguageOptions   *)
(* and the four spread operations, called with patterns P, change at most  *)
(* the first entry matching P, or append exactly one new entry at the end. *)
(* Every other element of the array, object entry or not, keeps its text   *)
(* and its place, and getConfigs() never reports a non-object element.     *)
(***************************************************************************)
LocalOperations ==
    {"addOrUpdateConfig", "addRule", "updateRule", "ensureRule", "removeRule",
     "clearAllRules", "setLanguageOptions"} \cup SpreadOperations

ObjectEntries(arr) == {i \in 1..Len(arr) : isObjectLiteral(arr[i])}

C26_EditsAreLocal ==
    /\ op.name \in LocalOperations =>
          IF EntriesWithFiles(pre, AddressedFiles) # {}
          THEN /\ Len(configArray) = Len(pre)
               /\ \A i \in 1..Len(pre) : i # FirstMatch => configArray[i] = pre[i]
          ELSE \/ configArray = pre
               \/ /\ Len(configArray) = Len(pre) + 1
                  /\ SubSeq(configArray, 1, Len(pre)) = pre
                  /\ isObjectLiteral(configArray[Len(configArray)])
    /\ Len(getConfigs(configArray)) = Cardinality(ObjectEntries(configArray))
    /\ \A i \in ObjectEntries(configArray) :
          \E k \in 1..Len(getConfigs(configArray)) :
              getConfigs(configArray)[k] = parseConfigObject(configArray[i])

\* An edit of an entry in an array that holds a non-object element.
C26_Witness ==
    /\ op.name \in LocalOperations
    /\ EntriesWithFiles(pre, AddressedFiles) # {}
    /\ configArray # pre
    /\ \E i \in 1..Len(pre) :
          /\ ~isObjectLiteral(pre[i])
          /\ configArray[i] = pre[i]
    /\ Len(getConfigs(configArray)) < Len(configArray)

\* A call that found no entry and appended one after a non-object element.
C26_Appended ==
    /\ op.name \in LocalOperations
    /\ EntriesWithFiles(pre, AddressedFiles) = {}
    /\ Len(configArray) = Len(pre) + 1
    /\ \E i \in 1..Len(pre) : ~isObjectLiteral(pre[i])

(***************************************************************************)
(* C27. removeRule really removes: in every reachable state, after any     *)
(* earlier addRule, addMultipleRules, mergeRulesFromPattern, updateRule    *)
(* and addOrUpdateConfig calls, once removeRule(P, R) or                   *)
(* removeRuleIfExists(P, R) has returned, hasRule(P, R) is false and       *)
(* getRule(P, R) is the not-found value.                                   *)
(***************************************************************************)
RuleRemoval == op.name \in {"removeRule", "removeRuleIfExists"}

C27_RemoveRuleRemoves ==
    RuleRemoval =>
        /\ ~hasRule(configArray, op.filePattern, op.ruleName)
        /\ getRule(configArray, op.filePattern, op.ruleName) = VUndefined

\* The rules object of the entry named the rule at most once before the call.
NamedAtMostOnce ==
    \/ EntriesWithFiles(pre, op.filePattern) = {}
    \/ Cardinality(RuleProperties(
           RuleMembers(pre[Min(EntriesWithFiles(pre, op.filePattern))]), op.ruleName)) <= 1

C27_RemovesTheOnlyProperty ==
    (RuleRemoval /\ NamedAtMostOnce) =>
        /\ ~hasRule(configArray, op.filePattern, op.ruleName)
        /\ getRule(configArray, op.filePattern, op.ruleName) = VUndefined

(***************************************************************************)
(* C28. ensureImport establishes what it is asked for: in every reachable  *)
(* import state and for every name, module and kind, once                  *)
(* ensureImport(name, module, kind) has returned,                          *)
(* hasImport(name, module, kind) is true.                                  *)
(***************************************************************************)
C28_EnsureImportEstablishes ==
    (op.name = "ensureImport" /\ ~op.threw) =>
        hasImport(imports, op.importSpecifier, op.moduleSpecifier, op.importType)

\* The kind is named or full, or the slot of the kind was free before the call.
SlotWasFree ==
    \/ op.importType \in {"named", "full"}
    \/ ~SlotTaken(pre, op.moduleSpecifier, op.importType)
    \/ MatchingSpecifiers(pre[TargetDeclaration], op.importSpecifier, op.importType) # {}

\* C28, as it holds: once ensureImport(name, module, kind) has returned,
\* hasImport(name, module, kind) is true, unless the kind is default or namespace
\* and the declaration of the module already holds another specifier of that kind.
C28_EstablishesWhenSlotFree ==
    (op.name = "ensureImport" /\ ~op.threw /\ SlotWasFree) =>
        hasImport(imports, op.importSpecifier, op.moduleSpecifier, op.importType)

\* A default import was added to a declaration that had none.
C28_Witness ==
    /\ op.name = "ensureImport"
    /\ ~op.threw
    /\ op.importType = "default"
    /\ findImportDeclaration(pre, op.moduleSpecifier) # 0
    /\ ~SlotTaken(pre, op.moduleSpecifier, "default")
    /\ imports # pre
    /\ hasImport(imports, op.importSpecifier, op.moduleSpecifier, "default")

(***************************************************************************)
(* C29. hasImport agrees with getImports: in every reachable state, files  *)
(* with more than one import declaration of a module included,             *)
(* hasImport(n, m, kind) for a kind among named, default and namespace is  *)
(* true if and only if getImports() holds an element with module m that    *)
(* has a specifier of that kind whose name is n (or, for named, whose name *)
(* or alias is n).                                                         *)
(***************************************************************************)
\* The names hasImport is asked about.
AskedNames == {<<"A">>, <<"B">>, <<"ns">>, <<"a">>, <<"b">>, <<"logger">>, <<"log">>}

\* getImports() lists the specifier under the module.
ListedByGetImports(decls, name, moduleSpecifier, kind) ==
    \E d \in 1..Len(getImports(decls)) :
        /\ getImports(decls)[d].module = moduleSpecifier
        /\ \E i \in 1..Len(getImports(decls)[d].specifiers) :
              LET sp == getImports(decls)[d].specifiers[i]
              IN  /\ sp.type = kind
                  /\ \/ <<sp.name>> = name
                     \/ /\ kind = "named"
                        /\ "alias" \in DOMAIN sp
                        /\ <<sp.alias>> = name

C29_HasImportAgreesWithGetImports ==
    \A name \in AskedNames, kind \in {"named", "default", "namespace"} :
        hasImport(imports, name, "m", kind)
            <=> ListedByGetImports(imports, name, "m", kind)

\* The same, in the states with at most one declaration of the module.
C29_OneDeclaration ==
    Cardinality(DeclarationsOf(imports, "m")) <= 1 =>
        \A name \in AskedNames, kind \in {"named", "default", "namespace"} :
            hasImport(imports, name, "m", kind)
                <=> ListedByGetImports(imports, name, "m", kind)

(***************************************************************************)
(* C30. Adding then removing a spread is the identity: for an entry        *)
(* matching P whose rules value is an object literal and any expression    *)
(* text e, addSpreadToRules(P, e) followed by removeSpreadFromRules(P, e)  *)
(* leaves the rules object with the same sequence of members as before    *)
(* the add, whatever members it held; likewise addSpreadToConfig(P, e)     *)
(* followed by removeSpreadFromConfig(P, e) for the members of the entry.  *)
(***************************************************************************)
\* The step removes the spread that the step before it added.
RemovesWhatWasAdded ==
    /\ \/ op.name = "addSpreadToRules" /\ op'.name = "removeSpreadFromRules"
       \/ op.name = "addSpreadToConfig" /\ op'.name = "removeSpreadFromConfig"
    /\ ~op.threw
    /\ op'.filePattern = op.filePattern
    /\ op'.spreadExpression = op.spreadExpression

====
